---- MODULE Spec2Model ----
(***************************************************************************)
(* Fast path of the pistachio-trading hybrid pipeline: the condition       *)
(* compiler (condition-compiler.ts), the indicator enrichment              *)
(* (indicators.ts) and FastTradingEngine (fast-engine.ts).                 *)
(*                                                                         *)
(* Conventions.  A JavaScript string that the code inspects character by   *)
(* character (a condition expression) is a sequence of one-character       *)
(* strings.  Fractions (positionSize, maxPositionSize, maxDailyLoss) are   *)
(* integers in percent.  A JavaScript value is a record [t, v]: t is the   *)
(* type tag, v the integer payload (0 when the tag has none).              *)
(***************************************************************************)
EXTENDS Integers, Sequences, FiniteSets, TLC

(***************************************************************************)
(* Text primitives                                                         *)
(***************************************************************************)
UpperLetters ==
  <<"A","B","C","D","E","F","G","H","I","J","K","L","M",
    "N","O","P","Q","R","S","T","U","V","W","X","Y","Z">>

LowerLetters ==
  <<"a","b","c","d","e","f","g","h","i","j","k","l","m",
    "n","o","p","q","r","s","t","u","v","w","x","y","z">>

Digits == <<"0","1","2","3","4","5","6","7","8","9">>

Range(s) == { s[i] : i \in DOMAIN s }

\* \w of the regular expressions: [A-Za-z0-9_]
WordChars == Range(UpperLetters) \cup Range(LowerLetters) \cup Range(Digits) \cup {"_"}

\* \s of the regular expressions, as far as the inputs of the model go
SpaceChars == {" "}

IdentStartChars == Range(UpperLetters) \cup Range(LowerLetters) \cup {"_"}

\* String.prototype.toLowerCase, one character
LowerChar(c) ==
  IF \E i \in DOMAIN UpperLetters : UpperLetters[i] = c
    THEN LowerLetters[CHOOSE i \in DOMAIN UpperLetters : UpperLetters[i] = c]
    ELSE c

toLowerCase(s) == [i \in DOMAIN s |-> LowerChar(s[i])]

\* the value of one decimal digit
DigitValue(c) == (CHOOSE i \in DOMAIN Digits : Digits[i] = c) - 1

\* String.prototype.includes: w occurs in s as a contiguous substring
includes(s, w) ==
  \E i \in 0..(Len(s) - Len(w)) : \A j \in 1..Len(w) : s[i + j] = w[j]

\* s has w at position i (1-based)
HasAt(s, w, i) ==
  /\ i + Len(w) - 1 <= Len(s)
  /\ \A j \in 1..Len(w) : s[i + j - 1] = w[j]

RECURSIVE TrimStart(_)
TrimStart(s) ==
  IF s # <<>> /\ Head(s) \in SpaceChars THEN TrimStart(Tail(s)) ELSE s

RECURSIVE TrimEnd(_)
TrimEnd(s) ==
  IF s # <<>> /\ s[Len(s)] \in SpaceChars
    THEN TrimEnd(SubSeq(s, 1, Len(s) - 1))
    ELSE s

\* String.prototype.trim
trim(s) == TrimEnd(TrimStart(s))

DataPrefix == <<"d", "a", "t", "a", ".">>

\* raw.replace(/\bdata\./g, ''): every "data." that starts at a word
\* boundary is removed, scanning left to right
RECURSIVE StripDataFrom(_, _)
StripDataFrom(s, i) ==
  IF i > Len(s) THEN <<>>
  ELSE IF /\ HasAt(s, DataPrefix, i)
          /\ (i = 1 \/ s[i - 1] \notin WordChars)
    THEN StripDataFrom(s, i + Len(DataPrefix))
    ELSE <<s[i]>> \o StripDataFrom(s, i + 1)

Normalize(raw) == StripDataFrom(raw, 1)

(***************************************************************************)
(* compileCondition: the filters                                           *)
(***************************************************************************)
forbidden == {";", "`", "\"", "'", "\\", "[", "]", "{", "}"}

\* the character class of /^[\w\s().,!<>=&|+\-*/%]+$/
AllowedChars ==
  WordChars \cup SpaceChars \cup
  {"(", ")", ".", ",", "!", "<", ">", "=", "&", "|", "+", "-", "*", "/", "%"}

badWords ==
  { <<"c", "o", "n", "s", "t", "r", "u", "c", "t", "o", "r">>,
    <<"p", "r", "o", "t", "o", "t", "y", "p", "e">>,
    <<"p", "r", "o", "c", "e", "s", "s">>,
    <<"g", "l", "o", "b", "a", "l">>,
    <<"r", "e", "q", "u", "i", "r", "e">>,
    <<"i", "m", "p", "o", "r", "t">>,
    <<"f", "u", "n", "c", "t", "i", "o", "n">>,
    <<"n", "e", "w">> }

HasForbiddenToken(normalized) == \E i \in DOMAIN normalized : normalized[i] \in forbidden

HasInvalidChars(normalized) ==
  normalized = <<>> \/ \E i \in DOMAIN normalized : normalized[i] \notin AllowedChars

HasBadWord(normalized) == \E w \in badWords : includes(toLowerCase(normalized), w)

\* the three throw statements ahead of new Function
FilterRejects(normalized) ==
  \/ HasForbiddenToken(normalized)
  \/ HasInvalidChars(normalized)
  \/ HasBadWord(normalized)

(***************************************************************************)
(* compileCondition: new Function(...params, "return Boolean(<expr>);")    *)
(*                                                                         *)
(* The expression grammar is the one the doc comment of compileCondition   *)
(* lists: comparisons, && || !, parentheses, + - * / %, plus the member    *)
(* access and call syntax that the character filter lets through.          *)
(***************************************************************************)
Tok(k, v) == [k |-> k, v |-> v]

\* operators and punctuation, longest first
Punctuators ==
  << [chars |-> <<"=", "=", "=">>, op |-> "==="],
     [chars |-> <<"!", "=", "=">>, op |-> "!=="],
     [chars |-> <<"&", "&">>, op |-> "&&"],
     [chars |-> <<"|", "|">>, op |-> "||"],
     [chars |-> <<"=", "=">>, op |-> "=="],
     [chars |-> <<"!", "=">>, op |-> "!="],
     [chars |-> <<"<", "=">>, op |-> "<="],
     [chars |-> <<">", "=">>, op |-> ">="],
     [chars |-> <<"<">>, op |-> "<"],
     [chars |-> <<">">>, op |-> ">"],
     [chars |-> <<"!">>, op |-> "!"],
     [chars |-> <<"+">>, op |-> "+"],
     [chars |-> <<"-">>, op |-> "-"],
     [chars |-> <<"*">>, op |-> "*"],
     [chars |-> <<"/">>, op |-> "/"],
     [chars |-> <<"%">>, op |-> "%"],
     [chars |-> <<"(">>, op |-> "("],
     [chars |-> <<")">>, op |-> ")"],
     [chars |-> <<".">>, op |-> "."],
     [chars |-> <<",">>, op |-> ","] >>

\* end (exclusive) of the maximal run of characters of class cls from i
RECURSIVE RunEnd(_, _, _)
RunEnd(s, i, cls) ==
  IF i <= Len(s) /\ s[i] \in cls THEN RunEnd(s, i + 1, cls) ELSE i

RECURSIVE DecimalValue(_)
DecimalValue(ds) ==
  IF ds = <<>> THEN 0
  ELSE 10 * DecimalValue(SubSeq(ds, 1, Len(ds) - 1)) + DigitValue(ds[Len(ds)])

\* the token sequence of an expression; a character that starts no token
\* yields a token of kind "bad", which no grammar rule accepts
RECURSIVE Tokenize(_, _)
Tokenize(s, i) ==
  IF i > Len(s) THEN <<>>
  ELSE IF s[i] \in SpaceChars THEN Tokenize(s, i + 1)
  ELSE IF s[i] \in IdentStartChars THEN
    LET e == RunEnd(s, i, WordChars)
    IN  <<Tok("id", SubSeq(s, i, e - 1))>> \o Tokenize(s, e)
  ELSE IF s[i] \in Range(Digits) THEN
    LET e == RunEnd(s, i, Range(Digits))
    IN  <<Tok("num", DecimalValue(SubSeq(s, i, e - 1)))>> \o Tokenize(s, e)
  ELSE IF \E k \in DOMAIN Punctuators : HasAt(s, Punctuators[k].chars, i) THEN
    LET k == CHOOSE k \in DOMAIN Punctuators :
               /\ HasAt(s, Punctuators[k].chars, i)
               /\ \A j \in 1..(k - 1) : ~HasAt(s, Punctuators[j].chars, i)
    IN  <<Tok("op", Punctuators[k].op)>> \o Tokenize(s, i + Len(Punctuators[k].chars))
  ELSE <<Tok("bad", 0)>> \o Tokenize(s, i + 1)

\* binary operators by precedence level, loosest first
BinaryOps(level) ==
  CASE level = 1 -> {"||"}
    [] level = 2 -> {"&&"}
    [] level = 3 -> {"==", "!=", "===", "!=="}
    [] level = 4 -> {"<", ">", "<=", ">="}
    [] level = 5 -> {"+", "-"}
    [] level = 6 -> {"*", "/", "%"}

IsOp(toks, pos, ops) ==
  pos <= Len(toks) /\ toks[pos].k = "op" /\ toks[pos].v \in ops

ParseOk(node, pos) == [ok |-> TRUE, node |-> node, pos |-> pos]

ParseFail(pos) == [ok |-> FALSE, node |-> <<"error">>, pos |-> pos]

RECURSIVE ParseLevel(_, _, _)
RECURSIVE ParseRest(_, _, _, _)
RECURSIVE ParseUnary(_, _)
RECURSIVE ParsePostfix(_, _, _)
RECURSIVE ParseArgs(_, _, _)
RECURSIVE ParsePrimary(_, _)

ParseLevel(toks, pos, level) ==
  IF level = 7 THEN ParseUnary(toks, pos)
  ELSE LET l == ParseLevel(toks, pos, level + 1)
       IN  IF l.ok THEN ParseRest(toks, l.pos, level, l.node) ELSE l

\* left-associative chain of the operators of one level
ParseRest(toks, pos, level, left) ==
  IF IsOp(toks, pos, BinaryOps(level)) THEN
    LET r == ParseLevel(toks, pos + 1, level + 1)
    IN  IF r.ok
          THEN ParseRest(toks, r.pos, level, <<"bin", toks[pos].v, left, r.node>>)
          ELSE r
  ELSE ParseOk(left, pos)

ParseUnary(toks, pos) ==
  IF IsOp(toks, pos, {"!", "-", "+"}) THEN
    LET e == ParseUnary(toks, pos + 1)
    IN  IF e.ok THEN ParseOk(<<"un", toks[pos].v, e.node>>, e.pos) ELSE e
  ELSE LET p == ParsePrimary(toks, pos)
       IN  IF p.ok THEN ParsePostfix(toks, p.pos, p.node) ELSE p

\* member accesses and calls after a primary
ParsePostfix(toks, pos, node) ==
  IF IsOp(toks, pos, {"."}) THEN
    IF pos + 1 <= Len(toks) /\ toks[pos + 1].k = "id"
      THEN ParsePostfix(toks, pos + 2, <<"member", node, toks[pos + 1].v>>)
      ELSE ParseFail(pos + 1)
  ELSE IF IsOp(toks, pos, {"("}) THEN
    LET a == ParseArgs(toks, pos + 1, <<>>)
    IN  IF a.ok THEN ParsePostfix(toks, a.pos, <<"call", node, a.node>>) ELSE a
  ELSE ParseOk(node, pos)

\* argument list up to and including the closing parenthesis
ParseArgs(toks, pos, acc) ==
  IF IsOp(toks, pos, {")"}) /\ acc = <<>> THEN ParseOk(acc, pos + 1)
  ELSE LET e == ParseLevel(toks, pos, 1)
       IN  IF ~e.ok THEN e
           ELSE IF IsOp(toks, e.pos, {")"}) THEN ParseOk(Append(acc, e.node), e.pos + 1)
           ELSE IF IsOp(toks, e.pos, {","}) THEN ParseArgs(toks, e.pos + 1, Append(acc, e.node))
           ELSE ParseFail(e.pos)

ParsePrimary(toks, pos) ==
  IF pos > Len(toks) THEN ParseFail(pos)
  ELSE IF toks[pos].k = "num" THEN ParseOk(<<"num", toks[pos].v>>, pos + 1)
  ELSE IF toks[pos].k = "id" THEN ParseOk(<<"var", toks[pos].v>>, pos + 1)
  ELSE IF IsOp(toks, pos, {"("}) THEN
    LET e == ParseLevel(toks, pos + 1, 1)
    IN  IF ~e.ok THEN e
        ELSE IF IsOp(toks, e.pos, {")"}) THEN ParseOk(e.node, e.pos + 1)
        ELSE ParseFail(e.pos)
  ELSE ParseFail(pos)

\* the body of the generated function: the syntax tree of the expression,
\* or <<"error">> where new Function throws a SyntaxError
ParseExpression(normalized) ==
  LET toks == Tokenize(normalized, 1)
      r == ParseLevel(toks, 1, 1)
  IN  IF r.ok /\ r.pos = Len(toks) + 1 THEN r.node ELSE <<"error">>

(***************************************************************************)
(* Evaluation of the generated function                                    *)
(***************************************************************************)
Val(t, v) == [t |-> t, v |-> v]

Num(n) == Val("num", n)

Bool(b) == Val("bool", IF b THEN 1 ELSE 0)

Undefined == Val("undef", 0)

NaN == Val("nan", 0)

\* a completion by exception (ReferenceError, TypeError)
Throw == Val("throw", 0)

\* an object of the ambient (global) scope
Ambient == Val("ambient", 0)

\* a value the integer model does not determine: the result of an
\* operation on a host object, or of a non-integer division
Opaque == Val("opaque", 0)

\* the formal parameters of the generated function, in order
FunctionParams ==
  << <<"t", "i", "c", "k", "e", "r">>,
     <<"t", "i", "m", "e", "s", "t", "a", "m", "p">>,
     <<"p", "r", "i", "c", "e">>,
     <<"o", "p", "e", "n">>,
     <<"h", "i", "g", "h">>,
     <<"l", "o", "w">>,
     <<"c", "l", "o", "s", "e">>,
     <<"v", "o", "l", "u", "m", "e">>,
     <<"S", "M", "A", "_", "2", "0">>,
     <<"S", "M", "A", "_", "5", "0">>,
     <<"S", "M", "A", "_", "2", "0", "0">>,
     <<"E", "M", "A", "_", "1", "2">>,
     <<"E", "M", "A", "_", "2", "6">>,
     <<"R", "S", "I">>,
     <<"M", "A", "C", "D">>,
     <<"M", "A", "C", "D", "_", "s", "i", "g", "n", "a", "l">>,
     <<"M", "A", "C", "D", "_", "h", "i", "s", "t", "o", "g", "r", "a", "m">>,
     <<"B", "B", "_", "u", "p", "p", "e", "r">>,
     <<"B", "B", "_", "m", "i", "d", "d", "l", "e">>,
     <<"B", "B", "_", "l", "o", "w", "e", "r">>,
     <<"A", "T", "R">>,
     <<"v", "o", "l", "u", "m", "e", "_", "a", "v", "g">>,
     <<"v", "o", "l", "u", "m", "e", "_", "r", "a", "t", "i", "o">> >>

\* the actual arguments of the call fn(data.ticker, data.timestamp, ...)
FunctionArgs(data) ==
  << data.ticker, data.timestamp, data.price, data.open, data.high, data.low,
     data.close, data.volume, data.SMA_20, data.SMA_50, data.SMA_200,
     data.EMA_12, data.EMA_26, data.RSI, data.MACD, data.MACD_signal,
     data.MACD_histogram, data.BB_upper, data.BB_middle, data.BB_lower,
     data.ATR, data.volume_avg, data.volume_ratio >>

\* names that resolve in the global scope of a function made by new Function
AmbientNames ==
  { <<"M", "a", "t", "h">>,
    <<"D", "a", "t", "e">>,
    <<"e", "v", "a", "l">>,
    <<"g", "l", "o", "b", "a", "l", "T", "h", "i", "s">> }

ThisKeyword == <<"t", "h", "i", "s">>

\* identifier resolution: parameter, then global scope, else ReferenceError;
\* in a strict function called without a receiver, this is undefined
ResolveIdentifier(name, args) ==
  IF \E i \in DOMAIN FunctionParams : FunctionParams[i] = name
    THEN args[CHOOSE i \in DOMAIN FunctionParams : FunctionParams[i] = name]
  ELSE IF name = ThisKeyword THEN Undefined
  ELSE IF name \in AmbientNames THEN Ambient
  ELSE Throw

IsHost(a) == a.t \in {"ambient", "opaque"}

\* ToNumber on the primitive values of the model
ToNumber(a) ==
  CASE a.t = "num" -> a
    [] a.t = "bool" -> Num(a.v)
    [] OTHER -> NaN

\* ToBoolean
ToBoolean(a) ==
  CASE a.t = "num" -> a.v # 0
    [] a.t = "bool" -> a.v = 1
    [] a.t = "str" -> TRUE
    [] a.t = "ambient" -> TRUE
    [] OTHER -> FALSE

Abs(n) == IF n < 0 THEN -n ELSE n

\* the % operator: the result takes the sign of the dividend
Remainder(a, b) == IF a < 0 THEN -(Abs(a) % Abs(b)) ELSE a % Abs(b)

Arithmetic(op, a, b) ==
  IF IsHost(a) \/ IsHost(b) \/ a.t = "str" \/ b.t = "str" THEN Opaque
  ELSE LET x == ToNumber(a)
           y == ToNumber(b)
       IN  IF x.t = "nan" \/ y.t = "nan" THEN NaN
           ELSE CASE op = "+" -> Num(x.v + y.v)
                  [] op = "-" -> Num(x.v - y.v)
                  [] op = "*" -> Num(x.v * y.v)
                  [] op = "%" -> IF y.v = 0 THEN NaN ELSE Num(Remainder(x.v, y.v))
                  [] op = "/" -> IF y.v # 0 /\ Remainder(x.v, y.v) = 0
                                   THEN Num((Abs(x.v) \div Abs(y.v)) *
                                            (IF (x.v < 0) = (y.v < 0) THEN 1 ELSE -1))
                                   ELSE Opaque

\* < > <= >=: a comparison with NaN (so with undefined) is false
Relational(op, a, b) ==
  IF IsHost(a) \/ IsHost(b) \/ (a.t = "str" /\ b.t = "str") THEN Opaque
  ELSE LET x == ToNumber(a)
           y == ToNumber(b)
       IN  IF x.t = "nan" \/ y.t = "nan" THEN Bool(FALSE)
           ELSE CASE op = "<" -> Bool(x.v < y.v)
                  [] op = ">" -> Bool(x.v > y.v)
                  [] op = "<=" -> Bool(x.v <= y.v)
                  [] op = ">=" -> Bool(x.v >= y.v)

\* ===
StrictEquals(a, b) == a.t = b.t /\ a.t # "nan" /\ a.v = b.v

\* ==: undefined equals only undefined (the model has no null); other
\* mixed operands are compared as numbers
LooseEquals(a, b) ==
  IF a.t = b.t THEN StrictEquals(a, b)
  ELSE IF a.t = "undef" \/ b.t = "undef" THEN FALSE
  ELSE LET x == ToNumber(a)
           y == ToNumber(b)
       IN  x.t = "num" /\ y.t = "num" /\ x.v = y.v

Equality(op, a, b) ==
  IF IsHost(a) \/ IsHost(b) THEN Opaque
  ELSE CASE op = "==" -> Bool(LooseEquals(a, b))
         [] op = "!=" -> Bool(~LooseEquals(a, b))
         [] op = "===" -> Bool(StrictEquals(a, b))
         [] op = "!==" -> Bool(~StrictEquals(a, b))

RECURSIVE Evaluate(_, _)
Evaluate(node, args) ==
  CASE node[1] = "num" -> Num(node[2])
    [] node[1] = "var" -> ResolveIdentifier(node[2], args)
    [] node[1] = "un" ->
         LET a == Evaluate(node[3], args)
         IN  IF a.t = "throw" THEN Throw
             ELSE IF a.t = "opaque" THEN Opaque
             ELSE IF node[2] = "!" THEN Bool(~ToBoolean(a))
             ELSE IF IsHost(a) \/ a.t = "str" THEN Opaque
             ELSE IF ToNumber(a).t = "nan" THEN NaN
             ELSE IF node[2] = "-" THEN Num(-ToNumber(a).v)
             ELSE ToNumber(a)
    [] node[1] = "bin" ->
         LET a == Evaluate(node[3], args)
         IN  IF a.t = "throw" THEN Throw
             \* && and || evaluate the right operand only when needed
             ELSE IF node[2] = "&&" THEN
               IF a.t = "opaque" THEN Opaque
               ELSE IF ToBoolean(a) THEN Evaluate(node[4], args) ELSE a
             ELSE IF node[2] = "||" THEN
               IF a.t = "opaque" THEN Opaque
               ELSE IF ToBoolean(a) THEN a ELSE Evaluate(node[4], args)
             ELSE LET b == Evaluate(node[4], args)
                  IN  IF b.t = "throw" THEN Throw
                      ELSE IF node[2] \in BinaryOps(3) THEN Equality(node[2], a, b)
                      ELSE IF node[2] \in BinaryOps(4) THEN Relational(node[2], a, b)
                      ELSE Arithmetic(node[2], a, b)
    [] node[1] = "member" ->
         \* a property of undefined is a TypeError; a property of any other
         \* value is looked up on a host object or prototype
         LET a == Evaluate(node[2], args)
         IN  IF a.t = "throw" \/ a.t = "undef" THEN Throw ELSE Opaque
    [] node[1] = "call" ->
         \* calling a primitive is a TypeError; the result of a host
         \* function is not determined here
         LET f == Evaluate(node[2], args)
         IN  IF f.t = "throw" \/ ~IsHost(f) THEN Throw
             ELSE IF \E i \in DOMAIN node[3] : Evaluate(node[3][i], args).t = "throw"
               THEN Throw
             ELSE Opaque

\* return Boolean(<expr>): "true", "false", "throw", or "opaque" when the
\* result rests on a host object
RunFunction(body, data) ==
  LET r == Evaluate(body, FunctionArgs(data))
  IN  CASE r.t = "throw" -> "throw"
        [] r.t = "opaque" -> "opaque"
        [] OTHER -> IF ToBoolean(r) THEN "true" ELSE "false"

(***************************************************************************)
(* compileCondition                                                        *)
(*                                                                         *)
(* The result is a record: kind "throw" when compilation raises, kind      *)
(* "const" for the () => false of an empty expression, kind "fn" with the  *)
(* body of the generated function otherwise.                               *)
(***************************************************************************)
compileCondition(expr) ==
  LET raw == trim(expr)
      normalized == Normalize(raw)
  IN  IF raw = <<>> THEN [kind |-> "const", body |-> <<"error">>]
      ELSE IF FilterRejects(normalized) THEN [kind |-> "throw", body |-> <<"error">>]
      ELSE IF ParseExpression(normalized)[1] = "error"
        THEN [kind |-> "throw", body |-> <<"error">>]
      ELSE [kind |-> "fn", body |-> ParseExpression(normalized)]

\* calling the compiled predicate on an enriched bar
CallPredicate(compiled, data) ==
  IF compiled.kind = "const" THEN "false" ELSE RunFunction(compiled.body, data)

(***************************************************************************)
(* The condition strings of the model's signals, compiled once             *)
(***************************************************************************)
\* close > 15
CondCloseHigh == <<"c", "l", "o", "s", "e", " ", ">", " ", "1", "5">>

\* RSI < 60
CondRsiLow == <<"R", "S", "I", " ", "<", " ", "6", "0">>

\* process.exit()
CondExit == <<"p", "r", "o", "c", "e", "s", "s", ".", "e", "x", "i", "t", "(", ")">>

\* close > 15 && foo
CondFoo ==
  <<"c", "l", "o", "s", "e", " ", ">", " ", "1", "5", " ", "&", "&", " ", "f", "o", "o">>

SignalConditions == {CondCloseHigh, CondRsiLow, CondExit, CondFoo}

\* compileCondition on the strings of SignalConditions, tabulated
CompiledConditions == [expr \in SignalConditions |-> compileCondition(expr)]

(***************************************************************************)
(* IndicatorCalculator                                                     *)
(*                                                                         *)
(* The closes of the model are integers; a mean that is not an integer is  *)
(* Opaque.  EMA, RSI and ATR beyond their warm-up need the accumulators of *)
(* the calculator's cache and are Opaque here: the ring bound of the       *)
(* engine specifications keeps every history below the shortest period.    *)
(***************************************************************************)
RECURSIVE SumOf(_)
SumOf(xs) == IF xs = <<>> THEN 0 ELSE Head(xs) + SumOf(Tail(xs))

LastN(xs, n) == SubSeq(xs, Len(xs) - n + 1, Len(xs))

MeanOf(xs, period) ==
  IF SumOf(xs) % period = 0 THEN Num(SumOf(xs) \div period) ELSE Opaque

SMA(data, period) ==
  IF Len(data) < period THEN Num(0)
  ELSE MeanOf([i \in 1..period |-> LastN(data, period)[i].close], period)

EMA(data, period) ==
  IF Len(data) < period THEN Num(0) ELSE Opaque

RSIPeriod == 14

RSI(data, period) ==
  IF Len(data) < period + 1 THEN Num(50) ELSE Opaque

\* macd = ema12 - ema26, signal = macd * 0.9, histogram = macd - signal
MACD(data) ==
  LET macd == Arithmetic("-", EMA(data, 12), EMA(data, 26))
      signal == IF macd.t = "num" /\ macd.v = 0 THEN Num(0) ELSE Opaque
  IN  [macd |-> macd, signal |-> signal, histogram |-> Arithmetic("-", macd, signal)]

BollingerPeriod == 20

BollingerBands(data, period) ==
  LET middle == SMA(data, period)
  IN  IF Len(data) < period
        THEN [upper |-> middle, middle |-> middle, lower |-> middle]
        ELSE [upper |-> Opaque, middle |-> middle, lower |-> Opaque]

ATRPeriod == 14

ATR(data, period) ==
  IF Len(data) < period + 1 THEN Num(0) ELSE Opaque

VolumePeriod == 20

volumeAverage(data, period) ==
  IF Len(data) < period THEN Num(0)
  ELSE MeanOf([i \in 1..period |-> LastN(data, period)[i].volume], period)

\* the ticker string as a JavaScript value
TickerValue == Val("str", 1)

\* { ...data }: the bar's own fields, every indicator field absent
BareEnriched(data) ==
  [ticker |-> TickerValue, timestamp |-> Num(data.timestamp), price |-> Num(data.price),
   open |-> Num(data.open), high |-> Num(data.high), low |-> Num(data.low),
   close |-> Num(data.close), volume |-> Num(data.volume),
   SMA_20 |-> Undefined, SMA_50 |-> Undefined, SMA_200 |-> Undefined,
   EMA_12 |-> Undefined, EMA_26 |-> Undefined, RSI |-> Undefined,
   MACD |-> Undefined, MACD_signal |-> Undefined, MACD_histogram |-> Undefined,
   BB_upper |-> Undefined, BB_middle |-> Undefined, BB_lower |-> Undefined,
   ATR |-> Undefined, volume_avg |-> Undefined, volume_ratio |-> Undefined]

\* the for loop of enrichData: one requested indicator
EnrichOne(enriched, historicalData, indicator) ==
  CASE indicator = "SMA_20" -> [enriched EXCEPT !.SMA_20 = SMA(historicalData, 20)]
    [] indicator = "SMA_50" -> [enriched EXCEPT !.SMA_50 = SMA(historicalData, 50)]
    [] indicator = "SMA_200" -> [enriched EXCEPT !.SMA_200 = SMA(historicalData, 200)]
    [] indicator = "EMA_12" -> [enriched EXCEPT !.EMA_12 = EMA(historicalData, 12)]
    [] indicator = "EMA_26" -> [enriched EXCEPT !.EMA_26 = EMA(historicalData, 26)]
    [] indicator = "RSI" -> [enriched EXCEPT !.RSI = RSI(historicalData, RSIPeriod)]
    [] indicator = "MACD" ->
         [enriched EXCEPT !.MACD = MACD(historicalData).macd,
                          !.MACD_signal = MACD(historicalData).signal,
                          !.MACD_histogram = MACD(historicalData).histogram]
    [] indicator \in {"BB_upper", "BB_middle", "BB_lower"} ->
         [enriched EXCEPT !.BB_upper = BollingerBands(historicalData, BollingerPeriod).upper,
                          !.BB_middle = BollingerBands(historicalData, BollingerPeriod).middle,
                          !.BB_lower = BollingerBands(historicalData, BollingerPeriod).lower]
    [] indicator = "ATR" -> [enriched EXCEPT !.ATR = ATR(historicalData, ATRPeriod)]
    [] indicator = "volume_avg" ->
         [enriched EXCEPT !.volume_avg = volumeAverage(historicalData, VolumePeriod)]
    [] OTHER -> enriched

RECURSIVE EnrichAll(_, _, _)
EnrichAll(enriched, historicalData, indicators) ==
  IF indicators = <<>> THEN enriched
  ELSE EnrichAll(EnrichOne(enriched, historicalData, Head(indicators)),
                 historicalData, Tail(indicators))

\* enrichData; volume_ratio is set only when volume_avg is truthy
enrichData(data, historicalData, indicators) ==
  LET enriched == EnrichAll(BareEnriched(data), historicalData, indicators)
  IN  IF ToBoolean(enriched.volume_avg) \/ enriched.volume_avg.t = "opaque"
        THEN [enriched EXCEPT !.volume_ratio =
                Arithmetic("/", Num(data.volume), enriched.volume_avg)]
        ELSE enriched

(***************************************************************************)
(* Bounds of the model                                                     *)
(***************************************************************************)
\* the wall clock stops here
MaxTime == 1

\* metrics.totalDecisions stops here
MaxDecisions == 2

\* dailyTrades stops here
MaxTrades == 2

\* a ring that nothing trims stops growing here
MaxRing == 4

\* the log of consecutive evaluation errors saturates here
MaxErrors == 4

(***************************************************************************)
(* FastTradingEngine: state                                                *)
(***************************************************************************)
VARIABLES
  now,                       \* the wall clock read by new Date()
  strategies,                \* Map ticker -> CompiledStrategy
  dataCache,                 \* Map ticker -> MarketData[]
  positions,                 \* Map ticker -> number (percent of capital)
  dailyPnL,                  \* percent of capital
  dailyTrades,
  compiledSignalConditions,  \* Map signal id -> compiled predicate
  totalDecisions,            \* metrics.totalDecisions
  result,                    \* what the last call returned
  errorLog,                  \* consecutive "Error evaluating signal" lines, per signal
  executionLog,              \* the decisions executeTrade reported as executed
  predicate,                 \* condition compiler on its own: the last compilation
  verdict,                   \* condition compiler on its own: the last predicate call
  backtest,                  \* BacktestEngine: its fields and the position of runBacktest
  hybrid,                    \* the hybrid query of the CLI: mode, events, paper tracker
  orchestrator,              \* HybridOrchestrator: timer, flag, refresh cycles in flight
  replay,                    \* the same bars through two fresh engines: the decisions
  call                       \* the last call of a function without state: argument, value

vars ==
  <<now, strategies, dataCache, positions, dailyPnL, dailyTrades,
    compiledSignalConditions, totalDecisions, result, errorLog, executionLog,
    predicate, verdict, backtest, hybrid, orchestrator, replay, call>>

engineVars ==
  <<strategies, dataCache, positions, dailyPnL, dailyTrades,
    compiledSignalConditions, totalDecisions, errorLog, executionLog>>

compilerVars == <<predicate, verdict>>

\* a Map as a function whose domain is the set of keys present
EmptyMap == <<>>

MapSet(m, k, v) == [x \in (DOMAIN m) \cup {k} |-> IF x = k THEN v ELSE m[x]]

MapDelete(m, k) == [x \in (DOMAIN m) \ {k} |-> m[x]]

\* this.positions.get(ticker) || 0
PositionOf(ticker) == IF ticker \in DOMAIN positions THEN positions[ticker] ELSE 0

\* the null a call returns instead of a decision
NoDecision ==
  [action |-> "null", ticker |-> "", positionSize |-> 0, entryPrice |-> 0,
   stopLoss |-> 0, takeProfit |-> 0, signalId |-> ""]

NoBar ==
  [ticker |-> "", timestamp |-> 0, price |-> 0, open |-> 0, high |-> 0,
   low |-> 0, close |-> 0, volume |-> 0]

Result(op, ticker, decision, raised, caught, trace, marketData) ==
  [op |-> op, ticker |-> ticker, decision |-> decision, raised |-> raised,
   caught |-> caught, trace |-> trace, marketData |-> marketData, at |-> now]

NoPredicate == [expr |-> <<>>, compiled |-> [kind |-> "none", body |-> <<"error">>]]

NoVerdict == [called |-> FALSE, data |-> BareEnriched(NoBar), outcome |-> "none"]

Init ==
  /\ now = 0
  /\ strategies = EmptyMap
  /\ dataCache = EmptyMap
  /\ positions = EmptyMap
  /\ dailyPnL = 0
  /\ dailyTrades = 0
  /\ compiledSignalConditions = EmptyMap
  /\ totalDecisions = 0
  /\ result = Result("new", "", NoDecision, FALSE, FALSE, <<>>, NoBar)
  /\ errorLog = EmptyMap
  /\ executionLog = <<>>
  /\ predicate = NoPredicate
  /\ verdict = NoVerdict
  /\ backtest = [phase |-> "idle", config |-> [initialCapital |-> 10000, commission |-> 0,
                                                slippage |-> 0],
                 capital |-> 10000 * 10000, positions |-> EmptyMap, trades |-> <<>>,
                 i |-> 0, data |-> NoBar, decision |-> "null",
                 equity |-> 0, equityCurve |-> <<>>, maxDrawdown |-> 0]
  /\ hybrid = [pc |-> "idle", mode |-> "RESEARCH", events |-> <<>>,
               metrics |-> [totalTrades |-> 0, maxDrawdown |-> 0, totalReturn |-> 0],
               maxDailyLoss |-> 0, position |-> [side |-> "FLAT", entry |-> 0, size |-> 0],
               pnlPct |-> 0, consecutiveLosses |-> 0, returns |-> <<>>, bars |-> 0,
               minDataPoints |-> 0, fetched |-> <<>>, raised |-> FALSE]
  /\ orchestrator = [refreshTimer |-> FALSE, isRefreshing |-> FALSE, cycles |-> <<>>,
                     strategyCache |-> EmptyMap, stopped |-> FALSE, started |-> 0,
                     invocations |-> 0, pendingAtStop |-> {}, lastTick |-> "none",
                     watchlist |-> {"AAPL", "MSFT"}, removed |-> {}]
  /\ replay = [phase |-> "idle"]
  /\ call = [fn |-> "none"]

(***************************************************************************)
(* FastTradingEngine: loadStrategy, unloadStrategy, reset                  *)
(***************************************************************************)
\* the validation at the head of loadStrategy
IsInvalidStrategy(strategy) ==
  strategy.id = "" \/ strategy.ticker = "" \/ strategy.signals = <<>>

SignalIds(strategy) == { strategy.signals[i].id : i \in DOMAIN strategy.signals }

\* compiledSignalConditions.delete(s.id) for every signal of the strategy
DeleteCompiled(compiled, strategy) ==
  [id \in (DOMAIN compiled) \ SignalIds(strategy) |-> compiled[id]]

loadStrategy(strategy) ==
  IF IsInvalidStrategy(strategy)
    THEN /\ result' = Result("loadStrategy", strategy.ticker, NoDecision, TRUE, FALSE, <<>>, NoBar)
         /\ UNCHANGED <<now, engineVars, compilerVars, backtest, hybrid, call>>
    ELSE /\ strategies' = MapSet(strategies, strategy.ticker, strategy)
         /\ compiledSignalConditions' = DeleteCompiled(compiledSignalConditions, strategy)
         /\ errorLog' = MapSet(errorLog, strategy.ticker, [i \in DOMAIN strategy.signals |-> 0])
         /\ result' = Result("loadStrategy", strategy.ticker, NoDecision, FALSE, FALSE, <<>>, NoBar)
         /\ UNCHANGED <<now, dataCache, positions, dailyPnL, dailyTrades, totalDecisions,
                        executionLog, compilerVars, backtest, hybrid, call>>

unloadStrategy(ticker) ==
  /\ strategies' = MapDelete(strategies, ticker)
  /\ errorLog' = MapDelete(errorLog, ticker)
  /\ result' = Result("unloadStrategy", ticker, NoDecision, FALSE, FALSE, <<>>, NoBar)
  /\ UNCHANGED <<now, dataCache, positions, dailyPnL, dailyTrades,
                 compiledSignalConditions, totalDecisions, executionLog, compilerVars,
                 backtest, hybrid, replay, call>>

\* reset() clears the maps and the daily counters; the compiled predicates
\* are not among the fields it clears
reset ==
  /\ strategies' = EmptyMap
  /\ dataCache' = EmptyMap
  /\ positions' = EmptyMap
  /\ dailyPnL' = 0
  /\ dailyTrades' = 0
  /\ totalDecisions' = 0
  /\ errorLog' = EmptyMap
  /\ executionLog' = <<>>
  /\ result' = Result("reset", "", NoDecision, FALSE, FALSE, <<>>, NoBar)
  /\ UNCHANGED <<now, compiledSignalConditions, compilerVars, backtest, hybrid, replay, call>>

\* the wall clock advances
Tick ==
  /\ now < MaxTime
  /\ now' = now + 1
  /\ UNCHANGED <<engineVars, result, compilerVars, backtest, hybrid, orchestrator, replay, call>>

(***************************************************************************)
(* FastTradingEngine: makeDecision                                         *)
(***************************************************************************)
\* the comparison the other way round
IsExpiredReversed(strategy) == strategy.expiresAt > now

\* strategy.expiresAt < new Date()
IsExpired(strategy) == strategy.expiresAt < now

\* updateCache: push, then shift once when the ring exceeds lookback * 2.
\* completion "throw": reading lookback of a strategy without
\* dataRequirements is a TypeError, raised after the push
updateCache(ticker, data) ==
  LET cache == IF ticker \in DOMAIN dataCache THEN dataCache[ticker] ELSE <<>>
      pushed == Append(cache, data)
      strategy == strategies[ticker]
  IN  IF ~strategy.dataRequirements.defined
        THEN [completion |-> "throw", cache |-> pushed]
        ELSE [completion |-> "normal",
              cache |-> IF Len(pushed) > strategy.dataRequirements.lookback * 2
                          THEN Tail(pushed) ELSE pushed]

\* the gate without the check of the open position
checkRiskLimitsNoPosition(strategy, action, positionSize) ==
  IF action = "HOLD" THEN TRUE
  ELSE IF positionSize > strategy.riskParams.maxPositionSize THEN FALSE
  ELSE IF dailyPnL < -strategy.riskParams.maxDailyLoss THEN FALSE
  ELSE TRUE

checkRiskLimits(strategy, action, positionSize) ==
  IF action = "HOLD" THEN TRUE
  ELSE IF positionSize > strategy.riskParams.maxPositionSize THEN FALSE
  ELSE IF dailyPnL < -strategy.riskParams.maxDailyLoss THEN FALSE
  ELSE IF Abs(PositionOf(strategy.ticker)) > 0 THEN FALSE
  ELSE TRUE

\* the decision object; stopLoss and takeProfit are in hundredths of a
\* price unit: close * (100 -+ percent)
\* the decision with the stop and the target of the engine's default risk
\* parameters (2 and 4 percent), not those of the strategy
DecisionDefaultRisk(strategy, signal, ticker, marketData) ==
  [action |-> signal.action, ticker |-> ticker, positionSize |-> signal.positionSize,
   entryPrice |-> marketData.close,
   stopLoss |-> marketData.close * (100 - 2),
   takeProfit |-> marketData.close * (100 + 4),
   signalId |-> signal.id]

Decision(strategy, signal, ticker, marketData) ==
  [action |-> signal.action, ticker |-> ticker, positionSize |-> signal.positionSize,
   entryPrice |-> marketData.close,
   stopLoss |-> marketData.close * (100 - strategy.riskParams.stopLoss),
   takeProfit |-> marketData.close * (100 + strategy.riskParams.takeProfit),
   signalId |-> signal.id]

\* one outcome of the body of the inner try.  completion: "return" with a
\* decision, "continue", or "throw".  outcome names what happened to the
\* signal: "false", "rejected", "accepted", "compileError", "runtimeError"
Step(completion, outcome, compiled, total, decision) ==
  [completion |-> completion, outcome |-> outcome, compiled |-> compiled,
   total |-> total, decision |-> decision]

\* the inner try from `if (conditionMet)` on; conditionMet is "throw" when
\* the call of the predicate raised
AfterCondition(strategy, signal, ticker, marketData, compiled, total, conditionMet) ==
  CASE conditionMet = "throw" -> Step("throw", "runtimeError", compiled, total, NoDecision)
    [] conditionMet = "false" -> Step("continue", "false", compiled, total, NoDecision)
    [] conditionMet = "true" ->
         \* updateMetrics, then the risk gate
         IF checkRiskLimits(strategy, signal.action, signal.positionSize)
           THEN Step("return", "accepted", compiled, total + 1,
                     Decision(strategy, signal, ticker, marketData))
           ELSE Step("continue", "rejected", compiled, total + 1, NoDecision)

\* the inner try once the predicate fn of the signal is at hand: cached, or
\* compiled now and cached unless compileCondition threw
WithPredicate(strategy, signal, ticker, marketData, enrichedData, compiled, total, fn) ==
  IF fn.kind = "throw"
    THEN Step("throw", "compileError", compiled, total, NoDecision)
    ELSE AfterCondition(strategy, signal, ticker, marketData,
                        MapSet(compiled, signal.id, fn), total,
                        CallPredicate(fn, enrichedData))

\* the body of the inner try for one signal
SignalBody(strategy, signal, ticker, marketData, enrichedData, compiled, total) ==
  WithPredicate(strategy, signal, ticker, marketData, enrichedData, compiled, total,
                IF signal.id \in DOMAIN compiled
                  THEN compiled[signal.id] ELSE CompiledConditions[signal.condition])

\* the catch of the inner try: log the error, continue with the next signal
InnerCatch(step) ==
  IF step.completion = "throw" THEN [step EXCEPT !.completion = "continue"] ELSE step

Loop(completion, decision, compiled, total, trace) ==
  [completion |-> completion, decision |-> decision, compiled |-> compiled,
   total |-> total, trace |-> trace]

\* the for loop over strategy.signals, from index i, in array order
RECURSIVE EvaluateSignals(_, _, _, _, _, _, _, _)
RECURSIVE AfterSignal(_, _, _, _, _, _, _)
AfterSignal(strategy, ticker, marketData, enrichedData, i, trace, step) ==
  IF step.completion = "return"
    THEN Loop("return", step.decision, step.compiled, step.total,
              Append(trace, [index |-> i, outcome |-> step.outcome]))
    ELSE EvaluateSignals(strategy, ticker, marketData, enrichedData, i + 1,
                         step.compiled, step.total,
                         Append(trace, [index |-> i, outcome |-> step.outcome]))

EvaluateSignals(strategy, ticker, marketData, enrichedData, i, compiled, total, trace) ==
  IF i > Len(strategy.signals)
    THEN Loop("return", NoDecision, compiled, total, trace)
    ELSE AfterSignal(strategy, ticker, marketData, enrichedData, i, trace,
                     InnerCatch(SignalBody(strategy, strategy.signals[i], ticker, marketData,
                                           enrichedData, compiled, total)))

\* a completion of the body of the outer try that evaluated no signal
Unchanged(completion, cache) ==
  [completion |-> completion, decision |-> NoDecision,
   compiled |-> compiledSignalConditions, total |-> totalDecisions,
   trace |-> <<>>, cache |-> cache]

\* the body of the outer try after updateCache
AfterUpdate(strategy, ticker, marketData, updated) ==
  IF updated.completion = "throw"
    THEN Unchanged("throw", MapSet(dataCache, ticker, updated.cache))
  ELSE IF Len(updated.cache) < strategy.dataRequirements.minDataPoints
    THEN Unchanged("return", MapSet(dataCache, ticker, updated.cache))
  ELSE [cache |-> MapSet(dataCache, ticker, updated.cache)] @@
       EvaluateSignals(strategy, ticker, marketData,
                       enrichData(marketData, updated.cache,
                                  strategy.dataRequirements.indicators),
                       1, compiledSignalConditions, totalDecisions, <<>>)

\* the body with the ring updated before the test of the expiry
DecisionBodyCacheFirst(ticker, marketData) ==
  IF ticker \notin DOMAIN strategies THEN Unchanged("return", dataCache)
  ELSE IF IsExpired(strategies[ticker])
    THEN Unchanged("return",
                   MapSet(dataCache, ticker, updateCache(ticker, marketData).cache))
  ELSE AfterUpdate(strategies[ticker], ticker, marketData, updateCache(ticker, marketData))

\* the body of the outer try
DecisionBody(ticker, marketData) ==
  IF ticker \notin DOMAIN strategies THEN Unchanged("return", dataCache)
  ELSE IF IsExpired(strategies[ticker]) THEN Unchanged("return", dataCache)
  ELSE AfterUpdate(strategies[ticker], ticker, marketData, updateCache(ticker, marketData))

\* no outer catch: the error leaves makeDecision
OuterCatchRethrow(body) == body

\* the catch of the outer try: log the error, return null
OuterCatch(body) ==
  IF body.completion = "throw"
    THEN [body EXCEPT !.completion = "return", !.decision = NoDecision]
    ELSE body

\* the error log after a call: a runtime error lengthens the signal's run of
\* consecutive errors, any other evaluation ends it
LogErrors(log, trace) ==
  [i \in DOMAIN log |->
     IF \E k \in DOMAIN trace : trace[k].index = i
       THEN LET e == trace[CHOOSE k \in DOMAIN trace : trace[k].index = i]
            IN  IF e.outcome = "runtimeError"
                  THEN (IF log[i] < MaxErrors THEN log[i] + 1 ELSE log[i])
                ELSE IF e.outcome = "compileError" THEN log[i]
                ELSE 0
       ELSE log[i]]

\* what a call leaves behind, given how its body completed (caught: the
\* outer catch ran) and what came out of the outer try/catch
Return(ticker, marketData, caught, out) ==
  /\ out.total <= MaxDecisions
  /\ \A t \in DOMAIN out.cache : Len(out.cache[t]) <= MaxRing
  /\ dataCache' = out.cache
  /\ compiledSignalConditions' = out.compiled
  /\ totalDecisions' = out.total
  /\ errorLog' = IF ticker \in DOMAIN errorLog
                   THEN [errorLog EXCEPT ![ticker] = LogErrors(errorLog[ticker], out.trace)]
                   ELSE errorLog
  /\ result' = Result("makeDecision", ticker, out.decision, out.completion = "throw",
                      caught, out.trace, marketData)
  /\ UNCHANGED <<now, strategies, positions, dailyPnL, dailyTrades, executionLog,
                 compilerVars, backtest, hybrid, orchestrator, call>>

Caught(ticker, marketData, body) ==
  Return(ticker, marketData, body.completion = "throw", OuterCatch(body))

makeDecision(ticker, marketData) ==
  Caught(ticker, marketData, DecisionBody(ticker, marketData))

(***************************************************************************)
(* FastTradingEngine: executeTrade                                         *)
(***************************************************************************)
executeTrade(decision) ==
  /\ dailyTrades < MaxTrades
  /\ positions' = CASE decision.action = "BUY" ->
                         MapSet(positions, decision.ticker, decision.positionSize)
                    [] decision.action = "SELL" ->
                         MapSet(positions, decision.ticker, -decision.positionSize)
                    [] OTHER -> positions
  /\ dailyTrades' = dailyTrades + 1
  /\ executionLog' = Append(executionLog, decision)
  /\ result' = Result("executeTrade", decision.ticker, decision, FALSE, FALSE, <<>>, NoBar)
  /\ UNCHANGED <<now, strategies, dataCache, dailyPnL, compiledSignalConditions,
                 totalDecisions, errorLog, compilerVars, backtest, hybrid, orchestrator, replay, call>>

(***************************************************************************)
(* Inputs                                                                  *)
(***************************************************************************)
Tickers == {"AAPL", "MSFT"}

Closes == {10, 20}

BarVolume == 100

\* how far a bar's timestamp may run ahead of the local clock
ClockSkew == 1

MarketData(ticker, timestamp, close) ==
  [ticker |-> ticker, timestamp |-> timestamp, price |-> close, open |-> close,
   high |-> close, low |-> close, close |-> close, volume |-> BarVolume]

Signal(id, condition, action, positionSize, priority) ==
  [id |-> id, condition |-> condition, action |-> action,
   positionSize |-> positionSize, priority |-> priority]

SigBuy == Signal("buy", CondCloseHigh, "BUY", 10, 1)

SigSell == Signal("sell", CondCloseHigh, "SELL", 10, 2)

SigBig == Signal("big", CondCloseHigh, "BUY", 50, 3)

SigHold == Signal("hold", CondRsiLow, "HOLD", 0, 0)

SigExit == Signal("exit", CondExit, "BUY", 10, 3)

SigFoo == Signal("foo", CondFoo, "BUY", 10, 3)

\* defaultRiskParams of DEFAULT_CONFIG, in percent
DefaultRiskParams ==
  [maxPositionSize |-> 10, stopLoss |-> 2, takeProfit |-> 4, maxDailyLoss |-> 5]

\* the same with a daily loss limit of 2 percent
TightRiskParams == [DefaultRiskParams EXCEPT !.maxDailyLoss = 2]

DataRequirements(minDataPoints) ==
  [defined |-> TRUE, indicators |-> <<"RSI">>, lookback |-> 1,
   minDataPoints |-> minDataPoints]

\* a strategy object that has no dataRequirements property
NoDataRequirements ==
  [defined |-> FALSE, indicators |-> <<>>, lookback |-> 0, minDataPoints |-> 0]

Strategy(ticker, signals, dataRequirements, riskParams, expiresAt) ==
  [id |-> "strategy", ticker |-> ticker, dataRequirements |-> dataRequirements,
   signals |-> signals, riskParams |-> riskParams, expiresAt |-> expiresAt]

\* an expiry beyond the last instant of the clock
Never == MaxTime + 1

(***************************************************************************)
(* Spec: the decision loop                                                 *)
(***************************************************************************)
DecisionStrategies ==
  { Strategy("AAPL", signals, DataRequirements(1), DefaultRiskParams, Never) :
      signals \in { <<SigBuy, SigSell>>, <<SigSell, SigBuy>>, <<SigExit, SigBuy>>, <<SigFoo>> } }
  \cup { Strategy("AAPL", <<SigSell, SigBuy>>, DataRequirements(2), DefaultRiskParams, Never),
         Strategy("AAPL", <<SigSell, SigBuy>>, DataRequirements(1), DefaultRiskParams, -1),
         Strategy("AAPL", <<SigBuy>>, NoDataRequirements, DefaultRiskParams, Never),
         Strategy("AAPL", <<>>, DataRequirements(1), DefaultRiskParams, Never),
         \* a lookback of 2 bars
         Strategy("AAPL", <<SigBuy>>, [DataRequirements(1) EXCEPT !.lookback = 2],
                  DefaultRiskParams, Never) }

LoadStrategy ==
  /\ \E strategy \in DecisionStrategies : loadStrategy(strategy)
  /\ UNCHANGED <<orchestrator, replay, call>>

MakeDecision ==
  /\ \E ticker \in Tickers, close \in Closes :
       makeDecision(ticker, MarketData(ticker, now, close))
  /\ UNCHANGED <<orchestrator, replay, call>>

Next == LoadStrategy \/ MakeDecision

Spec == Init /\ [][Next]_vars

(***************************************************************************)
(* SpecExpiry: expiry against the clock, bars stamped by another clock     *)
(***************************************************************************)
ExpiryStrategies ==
  { Strategy("AAPL", <<SigSell, SigBuy>>, DataRequirements(1), DefaultRiskParams, e) :
      e \in {0, Never} }

LoadExpiring ==
  /\ \E strategy \in ExpiryStrategies : loadStrategy(strategy)
  /\ UNCHANGED <<orchestrator, replay, call>>

MakeDecisionSkewed ==
  /\ \E close \in Closes, timestamp \in now..(now + ClockSkew) :
       makeDecision("AAPL", MarketData("AAPL", timestamp, close))
  /\ UNCHANGED <<orchestrator, replay, call>>

UnloadStrategy ==
  /\ unloadStrategy("AAPL")
  /\ UNCHANGED orchestrator

NextExpiry == LoadExpiring \/ MakeDecisionSkewed \/ UnloadStrategy \/ Tick

SpecExpiry == Init /\ [][NextExpiry]_vars

(***************************************************************************)
(* SpecTrade: decisions and their execution                                *)
(***************************************************************************)
TradeStrategies ==
  { Strategy("AAPL", signals, DataRequirements(1), TightRiskParams, Never) :
      signals \in { <<SigBig, SigBuy>>, <<SigBuy, SigHold>>, <<SigSell>> } }
  \cup { Strategy("MSFT", <<SigBuy>>, DataRequirements(1), TightRiskParams, Never) }

\* an order the caller builds itself, such as the close of a position
CallerDecision(action, ticker, positionSize, entryPrice) ==
  [action |-> action, ticker |-> ticker, positionSize |-> positionSize,
   entryPrice |-> entryPrice, stopLoss |-> 0, takeProfit |-> 0, signalId |-> "caller"]

ExecutableDecisions ==
  (IF result.op = "makeDecision" /\ result.decision.action # "null"
     THEN {result.decision} ELSE {})
  \cup { CallerDecision("BUY", "AAPL", 10, 20), CallerDecision("SELL", "AAPL", 10, 10) }

LoadTraded ==
  /\ \E strategy \in TradeStrategies : loadStrategy(strategy)
  /\ UNCHANGED <<orchestrator, replay, call>>

MakeDecisionTraded ==
  /\ \E ticker \in Tickers : makeDecision(ticker, MarketData(ticker, now, 20))
  /\ UNCHANGED <<orchestrator, replay, call>>

ExecuteTrade == \E decision \in ExecutableDecisions : executeTrade(decision)

Reset == reset /\ UNCHANGED orchestrator

NextTrade == LoadTraded \/ MakeDecisionTraded \/ ExecuteTrade \/ Reset

SpecTrade == Init /\ [][NextTrade]_vars

(***************************************************************************)
(* SpecCompiler: compileCondition and the predicate it returns             *)
(***************************************************************************)
\* the condition strings given to compileCondition
ConditionStrings ==
  SignalConditions \cup
  { \* data.close > 15
    <<"d", "a", "t", "a", ".", "c", "l", "o", "s", "e", " ", ">", " ", "1", "5">>,
    \* !(RSI > 70)
    <<"!", "(", "R", "S", "I", " ", ">", " ", "7", "0", ")">>,
    \* RSI != 30
    <<"R", "S", "I", " ", "!", "=", " ", "3", "0">>,
    \* RSI > 70 || close > 5
    <<"R", "S", "I", " ", ">", " ", "7", "0", " ", "|", "|", " ", "c", "l", "o", "s", "e", " ", ">", " ", "5">>,
    \* RSI < 30 && close > 5
    <<"R", "S", "I", " ", "<", " ", "3", "0", " ", "&", "&", " ", "c", "l", "o", "s", "e", " ", ">", " ", "5">>,
    \* RSI.x
    <<"R", "S", "I", ".", "x">>,
    \* close > SMA_20
    <<"c", "l", "o", "s", "e", " ", ">", " ", "S", "M", "A", "_", "2", "0">>,
    \* volume_ratio >= 1
    <<"v", "o", "l", "u", "m", "e", "_", "r", "a", "t", "i", "o", " ", ">", "=", " ", "1">>,
    \* Math
    <<"M", "a", "t", "h">>,
    \* !eval
    <<"!", "e", "v", "a", "l">>,
    \* Math.max(close, 1) > 0
    <<"M", "a", "t", "h", ".", "m", "a", "x", "(", "c", "l", "o", "s", "e", ",", " ", "1", ")", " ", ">", " ", "0">>,
    \* this
    <<"t", "h", "i", "s">>,
    \* close >
    <<"c", "l", "o", "s", "e", " ", ">">>,
    \* close > '1'
    <<"c", "l", "o", "s", "e", " ", ">", " ", "'", "1", "'">>,
    \* renewal > 1
    <<"r", "e", "n", "e", "w", "a", "l", " ", ">", " ", "1">>,
    \* (two spaces)
    <<" ", " ">> }

\* the indicator lists a strategy may request
IndicatorLists == { <<>>, <<"RSI">>, <<"SMA_20", "RSI">>, <<"volume_avg">> }

\* the enriched bars enrichData makes of a first bar
EnrichedBars ==
  { enrichData(MarketData("AAPL", 0, close), <<MarketData("AAPL", 0, close)>>, indicators) :
      close \in Closes, indicators \in IndicatorLists }

CompileCondition ==
  \E expr \in ConditionStrings :
    /\ predicate' = [expr |-> expr, compiled |-> compileCondition(expr)]
    /\ verdict' = NoVerdict
    /\ UNCHANGED <<now, engineVars, result, backtest, hybrid, orchestrator, replay, call>>

CallCompiled ==
  /\ predicate.compiled.kind \in {"fn", "const"}
  /\ \E data \in EnrichedBars :
       verdict' = [called |-> TRUE, data |-> data,
                   outcome |-> CallPredicate(predicate.compiled, data)]
  /\ UNCHANGED <<now, engineVars, result, predicate, backtest, hybrid, orchestrator, replay, call>>

NextCompiler == CompileCondition \/ CallCompiled

SpecCompiler == Init /\ [][NextCompiler]_vars

(***************************************************************************)
(* BacktestEngine (backtesting.ts)                                         *)
(*                                                                         *)
(* Units.  Bar prices and initialCapital are whole dollars; commission,    *)
(* slippage and the risk parameters are rates in percent.  An execution    *)
(* price, a cost and the proceeds are in 1/100 dollar; a commission, a     *)
(* pnl, the capital and the stop and target levels are in 1/10000 dollar.  *)
(* With these units every product of the code is an integer.  The          *)
(* decision of the engine's makeDecision on a bar is taken here as         *)
(* its action only: "null", "BUY", "SELL" or "HOLD".                       *)
(***************************************************************************)
\* bars of a run without a price that reaches a stop or a target
MaxBars == 3

\* bars of a run long enough to exhaust the cash
MaxLongRun == 11

closePosition(bt, data, position, reason) ==
  LET executionPrice == data.price * (100 - bt.config.slippage)
      proceeds == position.quantity * executionPrice
      commission == proceeds * bt.config.commission
      cost == position.quantity * position.entry
  IN  [bt EXCEPT !.capital = @ + (proceeds * 100 - commission),
                 !.positions = MapDelete(@, data.ticker),
                 !.trades = Append(@, [ticker |-> data.ticker, action |-> "SELL",
                                        price |-> executionPrice,
                                        quantity |-> position.quantity,
                                        timestamp |-> data.timestamp,
                                        pnl |-> proceeds * 100 - cost * 100 - commission,
                                        commission |-> commission, reason |-> reason])]

\* the same without the test of the cash
backtestExecuteTradeNoCashTest(bt, data, action, riskParams) ==
  IF action = "BUY" /\ data.ticker \notin DOMAIN bt.positions
    THEN LET executionPrice == data.price * (100 + bt.config.slippage)
             quantity == (bt.config.initialCapital * 10) \div executionPrice
             cost == quantity * executionPrice
             commission == cost * bt.config.commission
         IN  [bt EXCEPT !.capital = @ - (cost * 100 + commission),
                        !.positions = MapSet(@, data.ticker,
                           [ticker |-> data.ticker, entry |-> executionPrice,
                            quantity |-> quantity, entryTime |-> data.timestamp,
                            stopLoss |-> executionPrice *
                               (100 - (IF riskParams.stopLoss = 0 THEN 2
                                       ELSE riskParams.stopLoss)),
                            takeProfit |-> executionPrice *
                               (100 + (IF riskParams.takeProfit = 0 THEN 4
                                       ELSE riskParams.takeProfit))]),
                        !.trades = Append(@, [ticker |-> data.ticker, action |-> "BUY",
                                               price |-> executionPrice,
                                               quantity |-> quantity,
                                               timestamp |-> data.timestamp,
                                               commission |-> commission,
                                               reason |-> "Signal"])]
  ELSE IF action = "SELL" /\ data.ticker \in DOMAIN bt.positions
    THEN closePosition(bt, data, bt.positions[data.ticker], "Signal")
  ELSE bt

\* executeTrade of BacktestEngine; riskParams are those of the loaded
\* strategy, a stopLoss or takeProfit of 0 standing for 2 and 4 percent
backtestExecuteTrade(bt, data, action, riskParams) ==
  IF action = "BUY" /\ data.ticker \notin DOMAIN bt.positions
    THEN LET executionPrice == data.price * (100 + bt.config.slippage)
             \* floor(initialCapital * 0.1 / executionPrice)
             quantity == (bt.config.initialCapital * 10) \div executionPrice
             cost == quantity * executionPrice
             commission == cost * bt.config.commission
         IN  IF cost * 100 + commission <= bt.capital
               THEN [bt EXCEPT
                       !.capital = @ - (cost * 100 + commission),
                       !.positions = MapSet(@, data.ticker,
                          [ticker |-> data.ticker, entry |-> executionPrice,
                           quantity |-> quantity, entryTime |-> data.timestamp,
                           stopLoss |-> executionPrice *
                              (100 - (IF riskParams.stopLoss = 0 THEN 2
                                      ELSE riskParams.stopLoss)),
                           takeProfit |-> executionPrice *
                              (100 + (IF riskParams.takeProfit = 0 THEN 4
                                      ELSE riskParams.takeProfit))]),
                       !.trades = Append(@, [ticker |-> data.ticker, action |-> "BUY",
                                              price |-> executionPrice,
                                              quantity |-> quantity,
                                              timestamp |-> data.timestamp,
                                              commission |-> commission,
                                              reason |-> "Signal"])]
               ELSE bt
  ELSE IF action = "SELL" /\ data.ticker \in DOMAIN bt.positions
    \* the same arithmetic as closePosition, with the signal as the reason
    THEN closePosition(bt, data, bt.positions[data.ticker], "Signal")
  ELSE bt

updatePositions(bt, data) ==
  IF data.ticker \notin DOMAIN bt.positions THEN bt
  ELSE IF /\ bt.positions[data.ticker].stopLoss # 0
          /\ data.price * 10000 <= bt.positions[data.ticker].stopLoss
    THEN closePosition(bt, data, bt.positions[data.ticker], "Stop Loss")
  ELSE IF /\ bt.positions[data.ticker].takeProfit # 0
          /\ data.price * 10000 >= bt.positions[data.ticker].takeProfit
    THEN closePosition(bt, data, bt.positions[data.ticker], "Take Profit")
  ELSE bt

\* nothing is closed at the end
closeAllPositionsNone(bt, data, remaining) == bt

\* closeAllPositions: the loop over positions.values(); remaining are the
\* keys the iterator has not reached.  closePosition deletes the key of the
\* bar, and an entry deleted before the iterator reaches it is not visited
RECURSIVE closeAllPositions(_, _, _)
closeAllPositions(bt, data, remaining) ==
  IF remaining \cap DOMAIN bt.positions = {} THEN bt
  ELSE LET ticker == CHOOSE t \in remaining \cap DOMAIN bt.positions : TRUE
       IN  closeAllPositions(closePosition(bt, data, bt.positions[ticker], "End of backtest"),
                             data, remaining \ {ticker})

\* calculateEquity: the cash and the value of the position of the bar's
\* ticker at the bar's price, in 1/10000 dollar
calculateEquity(bt, data) ==
  bt.capital + (IF data.ticker \in DOMAIN bt.positions
                  THEN bt.positions[data.ticker].quantity * data.price * 10000
                  ELSE 0)

\* the equity curve takes a point every SampleEvery bars
SampleEvery == 100

\* the sample of the turn bt.i of the loop; the equity of the bar is kept,
\* for the last bar is sampled whatever its index
recordEquity(bt, data) ==
  [bt EXCEPT !.equity = calculateEquity(bt, data),
             !.equityCurve = IF bt.i % SampleEvery = 0
                               THEN Append(@, [timestamp |-> data.timestamp,
                                               equity |-> calculateEquity(bt, data)])
                               ELSE @]

\* the sample of the bar i === historicalData.length - 1, taken in the last
\* turn of the loop, when the rule of SampleEvery has not taken it already
recordLastEquity(bt) ==
  IF bt.i > 0 /\ (bt.i - 1) % SampleEvery # 0
    THEN [bt EXCEPT !.equityCurve = Append(@, [timestamp |-> bt.data.timestamp,
                                               equity |-> bt.equity])]
    ELSE bt

\* ((maxEquity - equity) / maxEquity) * 100, in 1/100 percent of the peak
\* taken in whole dollars, rounded up: 0 exactly when equity >= maxEquity
Drawdown(maxEquity, equity) ==
  IF equity >= maxEquity THEN 0
  ELSE ((maxEquity - equity) + (maxEquity \div 10000) - 1) \div (maxEquity \div 10000)

\* the loop of calculateMetrics over the equity curve from point k on
RECURSIVE DrawdownLoop(_, _, _, _)
DrawdownLoop(equityCurve, k, maxEquity, maxDrawdown) ==
  IF k > Len(equityCurve) THEN maxDrawdown
  ELSE IF equityCurve[k].equity > maxEquity
    THEN DrawdownLoop(equityCurve, k + 1, equityCurve[k].equity, maxDrawdown)
  ELSE IF Drawdown(maxEquity, equityCurve[k].equity) > maxDrawdown
    THEN DrawdownLoop(equityCurve, k + 1, maxEquity,
                      Drawdown(maxEquity, equityCurve[k].equity))
  ELSE DrawdownLoop(equityCurve, k + 1, maxEquity, maxDrawdown)

\* the highest equity of the curve and the initial capital
RECURSIVE PeakOf(_, _, _)
PeakOf(equityCurve, k, maxEquity) ==
  IF k > Len(equityCurve) THEN maxEquity
  ELSE PeakOf(equityCurve, k + 1,
              IF equityCurve[k].equity > maxEquity THEN equityCurve[k].equity
              ELSE maxEquity)

\* the drawdown of every point measured from the peak of the whole curve
maxDrawdownFromFinalPeak(initialCapital, equityCurve) ==
  IF equityCurve = <<>> THEN 0
  ELSE Drawdown(PeakOf(equityCurve, 1, initialCapital), equityCurve[1].equity)

\* the maximum drawdown of calculateMetrics: the peak starts at the
\* initial capital
maxDrawdownOf(initialCapital, equityCurve) ==
  DrawdownLoop(equityCurve, 1, initialCapital, 0)

\* calculateMetrics, the maximum drawdown
calculateMetrics(bt) ==
  [bt EXCEPT !.maxDrawdown =
     maxDrawdownOf(bt.config.initialCapital * 10000, bt.equityCurve)]

\* runBacktest up to its loop: the reset of the state.  The configuration
\* is that of the constructor, drawn here with the run
RunBacktest(configs) ==
  /\ backtest.phase # "running"
  /\ \E config \in configs :
       backtest' = [phase |-> "running", config |-> config,
                    capital |-> config.initialCapital * 10000,
                    positions |-> EmptyMap, trades |-> <<>>,
                    i |-> 0, data |-> NoBar, decision |-> "null",
                    equity |-> 0, equityCurve |-> <<>>, maxDrawdown |-> 0]
  /\ UNCHANGED <<now, engineVars, result, compilerVars, hybrid, orchestrator, replay, call>>

\* one turn of the loop of runBacktest: the bar historicalData[i] of the
\* strategy's ticker, the decision of the engine on it, executeTrade when
\* there is a decision, updatePositions
ProcessBar(prices, bars) ==
  /\ backtest.phase = "running"
  /\ backtest.i < bars
  /\ \E price \in prices, action \in {"null", "BUY", "SELL", "HOLD"} :
       backtest' =
         [recordEquity(
            updatePositions(
              IF action = "null" THEN backtest
              ELSE backtestExecuteTrade(backtest, MarketData("AAPL", backtest.i, price),
                                        action, DefaultRiskParams),
              MarketData("AAPL", backtest.i, price)),
            MarketData("AAPL", backtest.i, price))
          EXCEPT !.i = @ + 1, !.data = MarketData("AAPL", backtest.i, price),
                 !.decision = action]
  /\ UNCHANGED <<now, engineVars, result, compilerVars, hybrid, orchestrator, replay, call>>

\* runBacktest after its loop: closeAllPositions(lastData), the result
ReturnBacktest ==
  /\ backtest.phase = "running"
  /\ backtest' = [calculateMetrics(
                    recordLastEquity(
                      closeAllPositions(backtest, backtest.data, DOMAIN backtest.positions)))
                  EXCEPT !.phase = "returned"]
  /\ UNCHANGED <<now, engineVars, result, compilerVars, hybrid, orchestrator, replay, call>>

(***************************************************************************)
(* SpecBacktest: runs of a few bars at prices around the stop and target   *)
(***************************************************************************)
NextBacktest ==
  \/ RunBacktest({ [initialCapital |-> 10000, commission |-> c, slippage |-> c] : c \in {0, 1} })
  \/ ProcessBar({90, 100, 110}, MaxBars)
  \/ ReturnBacktest

SpecBacktest == Init /\ [][NextBacktest]_vars

(***************************************************************************)
(* SpecCash: long runs at one price under a commission of 100 percent,     *)
(* where five round trips use up the cash                                  *)
(***************************************************************************)
NextCash ==
  \/ RunBacktest({ [initialCapital |-> 10000, commission |-> 100, slippage |-> 0] })
  \/ ProcessBar({100}, MaxLongRun)
  \/ ReturnBacktest

SpecCash == Init /\ [][NextCash]_vars

(***************************************************************************)
(* The hybrid query of the CLI (cli.tsx, runHybridQuery)                   *)
(*                                                                         *)
(* Rates are in percent: a positionSize of 10 is the fraction 0.1, a       *)
(* maxDailyLoss of 5 the fraction 0.05, and tradeRet and pnlPct are in     *)
(* percent of the capital.  The metrics of the backtest and the decisions  *)
(* of the engine on the replayed bars are inputs.  hybrid.returns keeps    *)
(* the tradeRet of every closing trade of the replay, for the properties.  *)
(***************************************************************************)
\* bars of the replay window
MaxReplay == 6

\* newUiEvent, without the id and the timestamp
UiEvent(level, kind, message) == [level |-> level, kind |-> kind, message |-> message]

\* candidateRanges
CandidateRanges == <<"3mo", "6mo", "1y", "2y">>

\* what fetchYahooHistoricalData does for one range: it throws (ok FALSE)
\* or returns length bars, never none
FetchOutcome == {[ok |-> FALSE, length |-> 0]} \cup {[ok |-> TRUE, length |-> n] : n \in {1, 2}}

\* the fetches of one run, in the order of the candidate ranges: the loop
\* goes on to the next range after a history shorter than minDataPoints,
\* and ends on a long enough history, on an exception or after the last range
FetchOutcomes(minDataPoints) ==
  { o \in UNION { [1..n -> FetchOutcome] : n \in 1..Len(CandidateRanges) } :
      /\ \A k \in 1..(Len(o) - 1) : o[k].ok /\ o[k].length < minDataPoints
      /\ Len(o) < Len(CandidateRanges) =>
           ~o[Len(o)].ok \/ o[Len(o)].length >= minDataPoints }

\* the events of the loop over the candidate ranges, from the fetch of
\* index k
RECURSIVE FetchEvents(_, _, _)
FetchEvents(outcomes, k, minDataPoints) ==
  IF k > Len(outcomes) THEN <<>>
  ELSE <<UiEvent("info", "system", "Backtest: fetching")>>
       \o (IF ~outcomes[k].ok THEN <<>>
           ELSE <<UiEvent("ok", "system", "Backtest: data loaded")>>
                \o (IF outcomes[k].length >= minDataPoints THEN <<>>
                    ELSE <<UiEvent("warn", "gate", "Gate precheck")>>
                         \o FetchEvents(outcomes, k + 1, minDataPoints)))

\* the gate with a strict test of the number of trades
GatePassStrict(m) ==
  m.totalTrades > 3 /\ m.maxDrawdown <= 20 /\ m.totalReturn >= -5

\* gatePass of Gate #1
GatePass(m) ==
  m.totalTrades >= 3 /\ m.maxDrawdown <= 20 /\ m.totalReturn >= -5

\* the counter never reset
NextLossesNoReset(consecutiveLosses, tradeRet) ==
  IF tradeRet < 0 THEN consecutiveLosses + 1 ELSE consecutiveLosses

\* consecutiveLosses after a closing trade
NextLosses(consecutiveLosses, tradeRet) ==
  IF tradeRet < 0 THEN consecutiveLosses + 1 ELSE 0

\* runHybridQuery up to the end of the research step: the events are
\* cleared, the mode is set to RESEARCH, the strategy is compiled.  The
\* paper tracker of an earlier query is gone with its call
StartHybrid ==
  /\ hybrid.pc \in {"idle", "done"}
  /\ hybrid' = [pc |-> "research", mode |-> "RESEARCH",
                events |-> <<UiEvent("info", "mode", "Mode -> RESEARCH (start)"),
                             UiEvent("info", "system", "Research: compiling"),
                             UiEvent("ok", "system", "Research complete"),
                             UiEvent("info", "system", "Spec details")>>,
                metrics |-> [totalTrades |-> 0, maxDrawdown |-> 0, totalReturn |-> 0],
                maxDailyLoss |-> 0, position |-> [side |-> "FLAT", entry |-> 0, size |-> 0],
                pnlPct |-> 0, consecutiveLosses |-> 0, returns |-> <<>>, bars |-> 0,
                minDataPoints |-> 2, fetched |-> <<>>, raised |-> FALSE]
  /\ UNCHANGED <<now, engineVars, result, compilerVars, backtest, orchestrator, replay, call>>

\* the loop over the candidate ranges.  An exception of a fetch is caught
\* nowhere in runHybridQuery: it ends the run in executeHybridQuery.  The
\* last history fetched is the one of the backtest, long enough or not
FetchHistory ==
  /\ hybrid.pc = "research"
  /\ \E outcomes \in FetchOutcomes(hybrid.minDataPoints) :
       hybrid' = [hybrid EXCEPT
                    !.pc = IF outcomes[Len(outcomes)].ok THEN "backtest" ELSE "done",
                    !.raised = ~outcomes[Len(outcomes)].ok,
                    !.fetched = [k \in 1..Len(outcomes) |->
                                   [range |-> CandidateRanges[k], ok |-> outcomes[k].ok,
                                    length |-> outcomes[k].length]],
                    !.events = @ \o FetchEvents(outcomes, 1, hybrid.minDataPoints)]
  /\ UNCHANGED <<now, engineVars, result, compilerVars, backtest, orchestrator, replay, call>>

\* Gate #1: the backtest is run on the history, its metrics are tested;
\* on a pass the mode becomes TRADING and the paper tracker starts flat
BacktestGate ==
  /\ hybrid.pc = "backtest"
  /\ \E totalTrades \in {2, 3}, maxDrawdown \in {20, 21},
        totalReturn \in {-6, -5}, maxDailyLoss \in {5, 15, 20} :
       LET m == [totalTrades |-> totalTrades, maxDrawdown |-> maxDrawdown,
                 totalReturn |-> totalReturn]
           fetched == Append(hybrid.events, UiEvent("info", "system", "Backtest: running"))
       IN  IF GatePass(m)
             THEN hybrid' = [hybrid EXCEPT
                    !.pc = "replay", !.mode = "TRADING", !.metrics = m,
                    !.maxDailyLoss = maxDailyLoss,
                    !.events = fetched \o <<UiEvent("ok", "gate", "Gate #1: PASS"),
                                            UiEvent("ok", "mode", "Mode -> TRADING")>>]
             ELSE hybrid' = [hybrid EXCEPT
                    !.pc = "done", !.mode = "RESEARCH", !.metrics = m,
                    !.maxDailyLoss = maxDailyLoss,
                    !.events = fetched \o <<UiEvent("warn", "gate", "Gate #1: FAIL"),
                                            UiEvent("warn", "mode", "Mode stays RESEARCH")>>]
  /\ UNCHANGED <<now, engineVars, result, compilerVars, backtest, orchestrator, replay, call>>

\* the effect of a bar of the replay on which the engine decided action at
\* the close, with a positionSize of size
Replayed(h, action, close, size) ==
  IF action = "null" THEN h
  ELSE LET traded == [h EXCEPT !.events = Append(@, UiEvent("info", "trade", action))]
           tradeRet == ((close - h.position.entry) * h.position.size) \div h.position.entry
       IN  IF action = "BUY" /\ h.position.side = "FLAT"
             THEN [traded EXCEPT !.position = [side |-> "LONG", entry |-> close, size |-> size]]
           ELSE IF action = "SELL" /\ h.position.side = "LONG"
             THEN LET closed == [traded EXCEPT
                                   !.pnlPct = @ + tradeRet,
                                   !.consecutiveLosses = NextLosses(@, tradeRet),
                                   !.position = [side |-> "FLAT", entry |-> 0, size |-> 0],
                                   !.returns = Append(@, tradeRet)]
                  IN  \* Gate #2
                      IF closed.consecutiveLosses >= 3
                        THEN [closed EXCEPT !.mode = "RESEARCH", !.pc = "done",
                                !.events = Append(@, UiEvent("warn", "drift", "Gate #2"))]
                      \* Gate #3
                      ELSE IF closed.pnlPct <= -closed.maxDailyLoss
                        THEN [closed EXCEPT !.mode = "PAUSED", !.pc = "done",
                                !.events = Append(@, UiEvent("error", "redline", "Gate #3"))]
                      ELSE closed
           ELSE traded

\* one turn of the loop over the replay window
ReplayBar ==
  /\ hybrid.pc = "replay"
  /\ hybrid.bars < MaxReplay
  /\ \E action \in {"null", "BUY", "SELL", "HOLD"}, close \in Closes :
       hybrid' = [Replayed(hybrid, action, close, DefaultRiskParams.maxPositionSize)
                  EXCEPT !.bars = @ + 1]
  /\ UNCHANGED <<now, engineVars, result, compilerVars, backtest, orchestrator, replay, call>>

\* the replay window is exhausted: the summary
FinishHybrid ==
  /\ hybrid.pc = "replay"
  /\ hybrid' = [hybrid EXCEPT !.pc = "done"]
  /\ UNCHANGED <<now, engineVars, result, compilerVars, backtest, orchestrator, replay, call>>

NextHybrid == StartHybrid \/ FetchHistory \/ BacktestGate \/ ReplayBar \/ FinishHybrid

SpecHybrid == Init /\ [][NextHybrid]_vars

(***************************************************************************)
(* HybridOrchestrator (types.ts): the background refresh of the strategies *)
(*                                                                         *)
(* A refresh cycle is a call of refreshAllStrategies; it suspends in the   *)
(* await of the Spec Producer, once for every ticker of the watchlist.     *)
(* orchestrator.cycles holds the cycles in flight: origin is "start" for   *)
(* the cycle start() awaits and "timer" for one begun by the interval,     *)
(* remaining the tickers the loop has not reached, awaiting the ticker     *)
(* whose Spec Producer call is pending ("" for none).  stopped tells that  *)
(* stop() was called after the last start() and pendingAtStop the tickers   *)
(* whose Spec Producer call was pending then; started and invocations      *)
(* count the cycles begun and the Spec Producer calls made.  watchlist is   *)
(* the Set of the tickers watched and removed the tickers, as passed, that *)
(* removeFromWatchlist was called for.                                     *)
(***************************************************************************)
\* cycles begun in one behaviour
MaxCycles == 3

\* config.watchlist, in the order of insertion into the Set
Watchlist == <<"AAPL", "MSFT">>

\* a stop loss and a take profit apart from the defaults
WideRiskParams == [DefaultRiskParams EXCEPT !.stopLoss = 5, !.takeProfit = 10]

\* what the Spec Producer compiles for a ticker: one of two versions with
\* their own signals, risk parameters and data requirements
ProducedStrategies(ticker) ==
  { Strategy(ticker, <<SigBuy>>, DataRequirements(1), DefaultRiskParams, Never),
    Strategy(ticker, <<SigSell, SigHold>>, DataRequirements(2), WideRiskParams, Never) }

Cycle(origin, remaining, awaiting) ==
  [origin |-> origin, remaining |-> remaining, awaiting |-> awaiting]

\* the cycles without the one of index c
WithoutCycle(cycles, c) ==
  [k \in 1..(Len(cycles) - 1) |-> IF k < c THEN cycles[k] ELSE cycles[k + 1]]

\* the tickers of the sequence that are in the watchlist now: what the
\* iterator of the Set has yet to visit, a ticker deleted before the
\* iterator reaches it not being visited
StillWatched(o, tickers) == SelectSeq(tickers, LAMBDA t : t \in o.watchlist)

\* refreshAllStrategies up to its first await: nothing but the return when
\* the watchlist is empty; otherwise the flag is set and the Spec Producer
\* is called for the first ticker of the watchlist
BeginCycle(o, origin) ==
  IF StillWatched(o, Watchlist) = <<>>
    THEN [o EXCEPT !.started = @ + 1,
                   !.refreshTimer = IF origin = "start" THEN TRUE ELSE @]
    ELSE [o EXCEPT !.isRefreshing = TRUE,
                   !.cycles = Append(@, Cycle(origin, Tail(StillWatched(o, Watchlist)),
                                              Head(StillWatched(o, Watchlist)))),
                   !.started = @ + 1, !.invocations = @ + 1]

\* start(): the first cycle; the timer is set when that cycle has ended.
\* start() is called on an orchestrator that is not running
Start ==
  /\ ~orchestrator.refreshTimer
  /\ \A c \in DOMAIN orchestrator.cycles : orchestrator.cycles[c].origin # "start"
  /\ orchestrator.started < MaxCycles
  /\ orchestrator' = [BeginCycle(orchestrator, "start") EXCEPT
                        !.stopped = FALSE, !.pendingAtStop = {}, !.lastTick = "none"]
  /\ UNCHANGED <<now, engineVars, result, compilerVars, backtest, hybrid, replay, call>>

\* the callback of setInterval: a cycle unless the flag is set
TimerTick ==
  /\ orchestrator.refreshTimer
  /\ orchestrator.started < MaxCycles
  /\ orchestrator' =
       IF ~orchestrator.isRefreshing
         THEN [BeginCycle(orchestrator, "timer") EXCEPT !.lastTick = "started"]
         ELSE [orchestrator EXCEPT !.lastTick = "skipped"]
  /\ UNCHANGED <<now, engineVars, result, compilerVars, backtest, hybrid, replay, call>>

\* the cycle of index c after the await of a ticker: the loop goes on to
\* the next ticker and calls the Spec Producer for it, or ends, clears the
\* flag and, in start(), sets the timer
AfterTicker(o, c) ==
  LET cycle == o.cycles[c]
  IN  IF StillWatched(o, cycle.remaining) # <<>>
        THEN [o EXCEPT !.cycles[c] = Cycle(cycle.origin,
                                           Tail(StillWatched(o, cycle.remaining)),
                                           Head(StillWatched(o, cycle.remaining))),
                       !.invocations = @ + 1]
        ELSE [o EXCEPT !.cycles = WithoutCycle(@, c),
                       !.isRefreshing = FALSE,
                       !.refreshTimer = IF cycle.origin = "start" THEN TRUE ELSE @]

\* the Spec Producer returns a strategy to the cycle of index c:
\* strategyCache.set and tradingEngine.loadStrategy, then the loop
ProducerReturns ==
  \E c \in DOMAIN orchestrator.cycles :
    \E strategy \in ProducedStrategies(orchestrator.cycles[c].awaiting) :
      /\ orchestrator' =
           [AfterTicker(orchestrator, c) EXCEPT
              !.strategyCache = MapSet(@, strategy.ticker, strategy),
              !.lastTick = "none"]
      /\ loadStrategy(strategy)
      /\ UNCHANGED replay

\* the Spec Producer fails for the ticker of the cycle of index c: the
\* error is logged by refreshAllStrategies, then the loop
ProducerFails ==
  /\ \E c \in DOMAIN orchestrator.cycles :
       orchestrator' = [AfterTicker(orchestrator, c) EXCEPT !.lastTick = "none"]
  /\ UNCHANGED <<now, engineVars, result, compilerVars, backtest, hybrid, replay, call>>

\* stop(): clearInterval
stop(o) ==
  [o EXCEPT !.refreshTimer = FALSE, !.stopped = TRUE, !.lastTick = "none",
            !.pendingAtStop = { o.cycles[c].awaiting : c \in DOMAIN o.cycles }]

Stop ==
  /\ ~orchestrator.stopped
  /\ orchestrator' = stop(orchestrator)
  /\ UNCHANGED <<now, engineVars, result, compilerVars, backtest, hybrid, replay, call>>

\* reset() of the orchestrator: stop(), tradingEngine.reset(),
\* strategyCache.clear()
OrchestratorReset ==
  /\ orchestrator.strategyCache # EmptyMap
  /\ orchestrator' = [stop(orchestrator) EXCEPT !.strategyCache = EmptyMap]
  /\ reset

\* onMarketData: the decision of the engine on a bar
OnMarketData ==
  /\ \E close \in Closes : makeDecision("AAPL", MarketData("AAPL", now, close))
  /\ UNCHANGED <<orchestrator, replay, call>>

NextOrchestrator ==
  \/ Start
  \/ TimerTick
  \/ ProducerReturns
  \/ ProducerFails
  \/ Stop
  \/ OrchestratorReset
  \/ OnMarketData

SpecOrchestrator == Init /\ [][NextOrchestrator]_vars

(***************************************************************************)
(* SpecWatchlist: tickers leave the watchlist while refresh cycles run     *)
(***************************************************************************)
\* String.prototype.toUpperCase on the tickers passed in
toUpperCase(ticker) ==
  CASE ticker = "aapl" -> "AAPL"
    [] ticker = "msft" -> "MSFT"
    [] OTHER -> ticker

\* the arguments removeFromWatchlist is called with
RemovedTickers == {"AAPL", "aapl", "MSFT"}

\* removeFromWatchlist(ticker): the watchlist loses the ticker in upper
\* case; unloadStrategy and strategyCache.delete get the ticker as passed
RemoveFromWatchlist ==
  \E ticker \in RemovedTickers :
    /\ orchestrator' = [orchestrator EXCEPT
                          !.watchlist = @ \ {toUpperCase(ticker)},
                          !.strategyCache = MapDelete(@, ticker),
                          !.removed = @ \cup {ticker},
                          !.lastTick = "none"]
    /\ unloadStrategy(ticker)

NextWatchlist ==
  \/ Start
  \/ TimerTick
  \/ ProducerReturns
  \/ ProducerFails
  \/ RemoveFromWatchlist
  \/ OnMarketData

SpecWatchlist == Init /\ [][NextWatchlist]_vars

(***************************************************************************)
(* Replay of one bar sequence through two fresh engines                    *)
(*                                                                         *)
(* The engine of the model is used twice, one run after the other: each    *)
(* run begins with a new FastTradingEngine, loads the same strategy and    *)
(* feeds the same bars.  replay.decisions[run] is the sequence of what     *)
(* makeDecision returned in that run; the clock runs on in between.        *)
(***************************************************************************)
\* bars of the replayed sequence
MaxSequence == 2

\* new FastTradingEngine(): the fields of a fresh instance
NewEngine ==
  /\ replay.phase \in {"idle", "between"}
  /\ strategies' = EmptyMap
  /\ dataCache' = EmptyMap
  /\ positions' = EmptyMap
  /\ dailyPnL' = 0
  /\ dailyTrades' = 0
  /\ compiledSignalConditions' = EmptyMap
  /\ totalDecisions' = 0
  /\ errorLog' = EmptyMap
  /\ executionLog' = <<>>
  /\ result' = Result("new", "", NoDecision, FALSE, FALSE, <<>>, NoBar)
  /\ \E strategy \in ExpiryStrategies, n \in 1..MaxSequence : \E bars \in [1..n -> Closes] :
       replay' = IF replay.phase = "idle"
                   THEN [phase |-> "fresh", run |-> 1, strategy |-> strategy, bars |-> bars,
                         decisions |-> <<<<>>, <<>>>>]
                   ELSE [replay EXCEPT !.phase = "fresh", !.run = 2]
  /\ UNCHANGED <<now, compilerVars, backtest, hybrid, orchestrator, call>>

\* loadStrategy of the replayed strategy into the fresh engine
ReplayLoad ==
  /\ replay.phase = "fresh"
  /\ loadStrategy(replay.strategy)
  /\ replay' = [replay EXCEPT !.phase = "feeding"]
  /\ UNCHANGED <<orchestrator, call>>

\* makeDecision on the next bar of the sequence; the bars carry their
\* index as timestamp in both runs
ReplayDecision ==
  /\ replay.phase = "feeding"
  /\ LET k == Len(replay.decisions[replay.run]) + 1
     IN  /\ makeDecision(replay.strategy.ticker,
                         MarketData(replay.strategy.ticker, k, replay.bars[k]))
         /\ replay' = [replay EXCEPT
                         !.decisions[replay.run] = Append(@, result'.decision),
                         !.phase = IF k < Len(replay.bars) THEN "feeding"
                                   ELSE IF replay.run = 1 THEN "between" ELSE "done"]

NextReplay == NewEngine \/ ReplayLoad \/ ReplayDecision \/ Tick

SpecReplay == Init /\ [][NextReplay]_vars

(***************************************************************************)
(* Functions without state: the serializer of StrategyCompiler             *)
(* (ui-events.ts), timeframeToYahooInterval (data/yahoo.ts) and            *)
(* diagnoseNoTrades (diagnostics.ts)                                       *)
(***************************************************************************)
\* the number of serializations of one strategy object
MaxRoundTrips == 2

\* the body that compileCondition hands to new Function, up to the condition
FunctionBodyHead ==
  <<"\n", " ", " ", " ", " ", " ", " ", " ", " ", "'", "u", "s", "e", " ",
    "s", "t", "r", "i", "c", "t", "'", ";", "\n", " ", " ", " ", " ", " ",
    " ", " ", " ", "t", "r", "y", " ", "{", "\n", " ", " ", " ", " ", " ",
    " ", " ", " ", " ", " ", "r", "e", "t", "u", "r", "n", " ", "!", "!",
    "(">>

\* the same body after the condition
FunctionBodyTail ==
  <<")", ";", "\n", " ", " ", " ", " ", " ", " ", " ", " ", "}", " ", "c",
    "a", "t", "c", "h", " ", "(", "e", "r", "r", "o", "r", ")", " ", "{",
    "\n", " ", " ", " ", " ", " ", " ", " ", " ", " ", " ", "c", "o", "n",
    "s", "o", "l", "e", ".", "e", "r", "r", "o", "r", "(", "'", "C", "o",
    "n", "d", "i", "t", "i", "o", "n", " ", "e", "v", "a", "l", "u", "a",
    "t", "i", "o", "n", " ", "e", "r", "r", "o", "r", ":", "'", ",", " ",
    "e", "r", "r", "o", "r", ")", ";", "\n", " ", " ", " ", " ", " ", " ",
    " ", " ", " ", " ", "r", "e", "t", "u", "r", "n", " ", "f", "a", "l",
    "s", "e", ";", "\n", " ", " ", " ", " ", " ", " ", " ", " ", "}", "\n",
    " ", " ", " ", " ", " ", " ", " ", " ">>

\* Function.prototype.toString of new Function('data', body), around the body
AnonymousHead ==
  <<"f", "u", "n", "c", "t", "i", "o", "n", " ", "a", "n", "o", "n", "y",
    "m", "o", "u", "s", "(", "d", "a", "t", "a", "\n", ")", " ", "{", "\n">>

AnonymousTail == <<"\n", "}">>

\* Function.prototype.toString of the fallback () => false
ArrowFalse ==
  <<"(", ")", " ", "=", ">", " ", "f", "a", "l", "s", "e">>

\* close >   (a text that is no expression)
CondDangling == <<"c", "l", "o", "s", "e", " ", ">">>

\* the condition texts on which new Function throws a SyntaxError; every
\* other text of the model is an expression, a function's source included
SyntaxErrors == {CondDangling}

\* a condition is a string or a function; a function is known by its source
StringCondition(text) == [t |-> "string", text |-> text]

FunctionCondition(source) == [t |-> "function", text |-> source]

\* StrategyCompiler.compileCondition
newFunction(conditionStr) ==
  IF conditionStr \in SyntaxErrors
    THEN FunctionCondition(ArrowFalse)
    ELSE FunctionCondition(AnonymousHead \o FunctionBodyHead \o conditionStr
                             \o FunctionBodyTail \o AnonymousTail)

\* the escape of one character in a JSON string literal
JsonEscapeChar(c) ==
  CASE c = "\"" -> <<"\\", "\"">>
    [] c = "\\" -> <<"\\", "\\">>
    [] c = "\n" -> <<"\\", "n">>
    [] OTHER -> <<c>>

\* the escapes of a JSON string literal, by halves
RECURSIVE JsonEscape(_)
JsonEscape(s) ==
  IF s = <<>> THEN <<>>
  ELSE IF Len(s) = 1 THEN JsonEscapeChar(s[1])
  ELSE JsonEscape(SubSeq(s, 1, Len(s) \div 2))
         \o JsonEscape(SubSeq(s, Len(s) \div 2 + 1, Len(s)))

\* the number of backslashes that end right before position i
RECURSIVE BackslashRun(_, _)
BackslashRun(s, i) ==
  IF i > 1 /\ s[i - 1] = "\\" THEN 1 + BackslashRun(s, i - 1) ELSE 0

\* position i holds the backslash that opens an escape
OpensEscape(s, i) == s[i] = "\\" /\ BackslashRun(s, i) % 2 = 0

\* the text of a JSON string literal's content: every escape replaced by
\* the character it stands for
JsonUnescape(s) ==
  LET kept == SelectSeq([i \in DOMAIN s |-> i], LAMBDA i : ~OpensEscape(s, i))
  IN  [k \in DOMAIN kept |->
         IF kept[k] > 1 /\ OpensEscape(s, kept[k] - 1) /\ s[kept[k]] = "n"
           THEN "\n"
           ELSE s[kept[k]]]

\* JSON.stringify of a string
JsonString(s) == <<"\"">> \o JsonEscape(s) \o <<"\"">>

\* JSON.parse of a string literal
JsonParseString(lit) == JsonUnescape(SubSeq(lit, 2, Len(lit) - 1))

\* n as k decimal digits
RECURSIVE Padded(_, _)
Padded(n, k) ==
  IF k = 0 THEN <<>> ELSE Padded(n \div 10, k - 1) \o <<Digits[(n % 10) + 1]>>

IsoDatePrefix ==
  <<"1", "9", "7", "0", "-", "0", "1", "-", "0", "1", "T", "0", "0", ":",
    "0", "0", ":">>

\* Date.prototype.toISOString of an instant of the first minute of the epoch
toISOString(ms) ==
  IsoDatePrefix \o Padded(ms \div 1000, 2) \o <<".">> \o Padded(ms % 1000, 3) \o <<"Z">>

\* new Date(text).getTime() on the output of toISOString
DateParse(text) ==
  LET at == Len(IsoDatePrefix)
  IN  1000 * DecimalValue(SubSeq(text, at + 1, at + 2))
        + DecimalValue(SubSeq(text, at + 4, at + 6))

\* the object literal of serializeStrategy, as JSON.stringify writes it; the
\* properties carried over by the spread are plain JSON values
serializeStrategy(strategy) ==
  [strategy EXCEPT
     !.signals = [i \in DOMAIN strategy.signals |->
                    [strategy.signals[i] EXCEPT !.condition = JsonString(@.text)]],
     !.compiledAt = JsonString(toISOString(@)),
     !.expiresAt = JsonString(toISOString(@))]

\* deserializeStrategy: after JSON.parse every condition is a string
deserializeStrategy(serialized) ==
  [serialized EXCEPT
     !.signals = [i \in DOMAIN serialized.signals |->
                    [serialized.signals[i] EXCEPT
                       !.condition = newFunction(JsonParseString(@))]],
     !.compiledAt = DateParse(JsonParseString(@)),
     !.expiresAt = DateParse(JsonParseString(@))]

\* a strategy as compileStrategy builds it or as a caller hands it over
CompiledStrategy(signals, compiledAt, expiresAt) ==
  [id |-> "strategy", ticker |-> "AAPL", dataRequirements |-> DataRequirements(1),
   signals |-> signals, riskParams |-> DefaultRiskParams,
   compiledAt |-> compiledAt, expiresAt |-> expiresAt]

SerializerConditions ==
  { StringCondition(t) : t \in {CondCloseHigh, CondFoo, CondDangling} }
    \cup { newFunction(t) : t \in {CondCloseHigh, CondDangling} }

SerializerSignals ==
  {<<>>}
    \cup { <<[SigBuy EXCEPT !.condition = c]>> : c \in SerializerConditions }
    \cup { <<[SigBuy EXCEPT !.condition = c], [SigSell EXCEPT !.condition = d]>> :
             c \in SerializerConditions, d \in {StringCondition(CondFoo)} }

SerializerStrategies ==
  { CompiledStrategy(signals, compiledAt, compiledAt + Never) :
      signals \in SerializerSignals, compiledAt \in {0, 1001} }

\* serializeStrategy on a strategy, or on the value of deserializeStrategy
SerializeStrategy ==
  /\ \/ /\ call.fn # "deserializeStrategy"
        /\ \E strategy \in SerializerStrategies :
             call' = [fn |-> "serializeStrategy", strategy |-> strategy,
                      serialized |-> serializeStrategy(strategy),
                      first |-> serializeStrategy(strategy), round |-> 1]
     \/ /\ call.fn = "deserializeStrategy"
        /\ call.round < MaxRoundTrips
        /\ call' = [call EXCEPT !.fn = "serializeStrategy",
                                !.serialized = serializeStrategy(call.strategy),
                                !.round = @ + 1]
  /\ UNCHANGED <<now, engineVars, result, compilerVars, backtest, hybrid,
                 orchestrator, replay>>

DeserializeStrategy ==
  /\ call.fn = "serializeStrategy"
  /\ call' = [call EXCEPT !.fn = "deserializeStrategy",
                          !.strategy = deserializeStrategy(call.serialized)]
  /\ UNCHANGED <<now, engineVars, result, compilerVars, backtest, hybrid,
                 orchestrator, replay>>

\* the literals of timeframeToYahooInterval
Literal1day == <<"1", "d", "a", "y">>
Literal1_day == <<"1", "_", "d", "a", "y">>
Literal1h == <<"1", "h">>
Literal60m == <<"6", "0", "m">>
Literal60min == <<"6", "0", "m", "i", "n">>
LiteralHour == <<"h", "o", "u", "r">>
LiteralHourly == <<"h", "o", "u", "r", "l", "y">>
Literal30m == <<"3", "0", "m">>
Literal30min == <<"3", "0", "m", "i", "n">>
Literal15m == <<"1", "5", "m">>
Literal15min == <<"1", "5", "m", "i", "n">>
Literal5m == <<"5", "m">>
Literal5min == <<"5", "m", "i", "n">>
Literal1d == <<"1", "d">>
LiteralDay == <<"d", "a", "y">>
LiteralDaily == <<"d", "a", "i", "l", "y">>

\* a timeframe argument: a string, or undefined
TimeframeArgument(text) == [defined |-> TRUE, text |-> text]

UndefinedTimeframe == [defined |-> FALSE, text |-> <<>>]

timeframeToYahooInterval(timeframe) ==
  LET tf == toLowerCase(trim(IF timeframe.defined THEN timeframe.text ELSE <<>>))
  IN  IF tf = <<>> THEN Literal1h
      ELSE IF tf = Literal1day \/ tf = Literal1_day THEN Literal1d
      ELSE IF tf \in {Literal1h, Literal60m, Literal60min, LiteralHour, LiteralHourly}
        THEN Literal1h
      ELSE IF tf = Literal30m \/ tf = Literal30min THEN Literal30m
      ELSE IF tf = Literal15m \/ tf = Literal15min THEN Literal15m
      ELSE IF tf = Literal5m \/ tf = Literal5min THEN Literal5m
      ELSE IF tf \in {Literal1d, LiteralDay, LiteralDaily} THEN Literal1d
      ELSE Literal1h

\* the timeframes of a Spec, and the provider interval of each
SpecTimeframes == <<<<"1", "m", "i", "n">>, <<"5", "m", "i", "n">>, <<"1", "5", "m", "i", "n">>, <<"1", "h", "o", "u", "r">>, <<"1", "d", "a", "y">>>>

ProviderIntervals == <<<<"1", "m">>, <<"5", "m">>, <<"1", "5", "m">>, <<"1", "h">>, <<"1", "d">>>>

\* arguments: the Spec timeframes, the spellings the function names, the
\* provider's own 1m and 90m, each as written, in capitals and with blanks
TimeframeTexts ==
  LET plain == Range(SpecTimeframes)
                 \cup {Literal1_day, Literal1h, Literal60m, Literal60min, LiteralHour,
                       LiteralHourly, Literal30m, Literal30min, Literal15m,
                       Literal5m, Literal1d, LiteralDay, LiteralDaily,
                       <<"1", "m">>, <<"9", "0", "m">>, <<>>}
      cased == plain \cup { [i \in DOMAIN s |->
                               IF \E k \in DOMAIN LowerLetters : LowerLetters[k] = s[i]
                                 THEN UpperLetters[CHOOSE k \in DOMAIN LowerLetters :
                                                     LowerLetters[k] = s[i]]
                                 ELSE s[i]] : s \in plain }
  IN  cased \cup { <<" ">> \o s \o <<" ">> : s \in cased }

TimeframeToYahooInterval ==
  /\ \E timeframe \in { TimeframeArgument(s) : s \in TimeframeTexts }
                        \cup {UndefinedTimeframe} :
       call' = [fn |-> "timeframeToYahooInterval", timeframe |-> timeframe,
                interval |-> timeframeToYahooInterval(timeframe)]
  /\ UNCHANGED <<now, engineVars, result, compilerVars, backtest, hybrid,
                 orchestrator, replay>>

\* the signal conditions of the diagnosed strategies
\* RSI < 30
CondOneTerm ==
  <<"R", "S", "I", " ", "<", " ", "3", "0">>

\* RSI < 30 && close > 10
CondTwoTerms ==
  <<"R", "S", "I", " ", "<", " ", "3", "0", " ", "&", "&", " ", "c", "l",
    "o", "s", "e", " ", ">", " ", "1", "0">>

\* RSI < 30 && close > 10 && volume > 5
CondThreeTerms ==
  <<"R", "S", "I", " ", "<", " ", "3", "0", " ", "&", "&", " ", "c", "l",
    "o", "s", "e", " ", ">", " ", "1", "0", " ", "&", "&", " ", "v", "o",
    "l", "u", "m", "e", " ", ">", " ", "5">>

\* RSI < 30 AND close > 10 AND volume > 5
CondThreeWords ==
  <<"R", "S", "I", " ", "<", " ", "3", "0", " ", "A", "N", "D", " ", "c",
    "l", "o", "s", "e", " ", ">", " ", "1", "0", " ", "A", "N", "D", " ",
    "v", "o", "l", "u", "m", "e", " ", ">", " ", "5">>

\* RSI < 30 and close > 10
CondTwoWords ==
  <<"R", "S", "I", " ", "<", " ", "3", "0", " ", "a", "n", "d", " ", "c",
    "l", "o", "s", "e", " ", ">", " ", "1", "0">>

\* RSI < SMA_20 || MACD > ATR
CondFourIndicators ==
  <<"R", "S", "I", " ", "<", " ", "S", "M", "A", "_", "2", "0", " ", "|",
    "|", " ", "M", "A", "C", "D", " ", ">", " ", "A", "T", "R">>

DiagnosedConditions ==
  { StringCondition(t) :
      t \in {CondOneTerm, CondTwoTerms, CondThreeTerms, CondThreeWords,
             CondTwoWords, CondFourIndicators} }
    \cup {newFunction(CondThreeTerms)}

\* String.prototype.split(/AND|and|\&\&/): the number of separators found
\* from position i on, left to right and without overlap
RECURSIVE Separators(_, _)
Separators(s, i) ==
  IF i > Len(s) THEN 0
  ELSE IF HasAt(s, <<"A", "N", "D">>, i) \/ HasAt(s, <<"a", "n", "d">>, i)
    THEN 1 + Separators(s, i + 3)
  ELSE IF HasAt(s, <<"&", "&">>, i) THEN 1 + Separators(s, i + 2)
  ELSE Separators(s, i + 1)

hasComplexConditions(strategy) ==
  \E i \in DOMAIN strategy.signals :
    LET condition == strategy.signals[i].condition
    IN  /\ condition.t = "string"
        /\ \/ includes(condition.text, <<"&", "&">>)
           \/ Separators(condition.text, 1) + 1 > 2

\* a reason or a suggestion: its kind and the number written into it
Message(kind, n) == [kind |-> kind, n |-> n]

Diagnosis(reason, suggestions) == [reason |-> reason, suggestions |-> suggestions]

\* the part of diagnoseNoTrades after the two early returns
diagnoseConditions(strategy, historicalDataPoints) ==
  LET complex == hasComplexConditions(strategy)
      indicatorCount == Len(strategy.dataRequirements.indicators)
      many == indicatorCount > 3
      lookback == strategy.dataRequirements.lookback
      long == 2 * lookback > historicalDataPoints
      suggestions ==
        (IF complex THEN <<Message("simplify", 0), Message("relaxIndicators", 0)>>
                    ELSE <<>>)
          \o (IF many THEN <<Message("reduceIndicators", 0)>> ELSE <<>>)
          \o (IF long THEN <<Message("reduceLookback", historicalDataPoints \div 3)>>
                      ELSE <<>>)
  IN  Diagnosis(
        IF long THEN Message("lookbackTooLong", lookback)
        ELSE IF many THEN Message("manyIndicators", indicatorCount)
        ELSE IF complex THEN Message("tooRestrictive", 0)
        ELSE Message("neverTriggered", 0),
        IF suggestions = <<>>
          THEN <<Message("longerPeriod", 0), Message("trendFollowing", 0),
                 Message("relaxThresholds", 0)>>
          ELSE suggestions)

\* the least number of points diagnoseNoTrades takes for enough data
EnoughPoints == 100

diagnoseNoTrades(strategy, historicalDataPoints) ==
  IF historicalDataPoints < EnoughPoints
    THEN Diagnosis(Message("insufficientData", historicalDataPoints),
                   <<Message("extendLookback", 0)>>)
  ELSE IF \A i \in DOMAIN strategy.signals : strategy.signals[i].action # "BUY"
    THEN Diagnosis(Message("noBuySignals", 0), <<Message("needBuyCondition", 0)>>)
  ELSE diagnoseConditions(strategy, historicalDataPoints)

\* the strategies handed to diagnoseNoTrades: one or two signals, one or
\* four requested indicators, a short or a long lookback
DiagnosedStrategies ==
  { [CompiledStrategy(signals, 0, Never) EXCEPT
       !.dataRequirements.indicators = indicators,
       !.dataRequirements.lookback = lookback] :
      signals \in { <<[SigBuy EXCEPT !.condition = c]>> : c \in DiagnosedConditions }
                    \cup { <<[SigSell EXCEPT !.condition = c]>> :
                             c \in {StringCondition(CondThreeTerms)} }
                    \cup { <<[SigSell EXCEPT !.condition = StringCondition(CondTwoTerms)],
                             [SigBuy EXCEPT !.condition = StringCondition(CondOneTerm)]>> },
      indicators \in { <<"RSI">>, <<"RSI", "SMA_20", "MACD", "ATR">> },
      lookback \in {1, 60} }

DiagnoseNoTrades ==
  /\ \E strategy \in DiagnosedStrategies :
       \E historicalDataPoints \in {EnoughPoints - 1, EnoughPoints, 2 * EnoughPoints} :
         call' = [fn |-> "diagnoseNoTrades", strategy |-> strategy,
                  historicalDataPoints |-> historicalDataPoints,
                  diagnosis |-> diagnoseNoTrades(strategy, historicalDataPoints)]
  /\ UNCHANGED <<now, engineVars, result, compilerVars, backtest, hybrid,
                 orchestrator, replay>>

NextFunctions ==
  SerializeStrategy \/ DeserializeStrategy \/ TimeframeToYahooInterval
    \/ DiagnoseNoTrades

SpecFunctions == Init /\ [][NextFunctions]_vars

(***************************************************************************)
(* IndicatorCalculator with its cache: EMA and MACD (indicators.ts)        *)
(*                                                                         *)
(* The values are exact fractions in lowest terms, so that two equal       *)
(* values are the same record.  The histories stay below 26 bars, where    *)
(* EMA(26) returns 0 and caches nothing.                                   *)
(***************************************************************************)
\* bars of the longest history handed to the calculator
MaxEmaBars == 14

RECURSIVE Gcd(_, _)
Gcd(a, b) == IF b = 0 THEN a ELSE Gcd(b, a % b)

\* the fraction n / d, d > 0, in lowest terms
Ratio(n, d) ==
  [n |-> n \div Gcd(IF n < 0 THEN -n ELSE n, d), d |-> d \div Gcd(IF n < 0 THEN -n ELSE n, d)]

RatioSub(a, b) == Ratio(a.n * b.d - b.n * a.d, a.d * b.d)

\* (price - ema) * multiplier + ema, with multiplier = 2 / (period + 1)
Smooth(price, ema, period) ==
  Ratio((period - 1) * ema.n + 2 * price * ema.d, (period + 1) * ema.d)

\* the sum of a sequence of closes
RECURSIVE SumCloses(_)
SumCloses(closes) == IF closes = <<>> THEN 0 ELSE Head(closes) + SumCloses(Tail(closes))

\* the loop of EMA over data[i], i >= period, from the SMA of the first
\* period closes
RECURSIVE SmoothFrom(_, _, _, _)
SmoothFrom(closes, i, ema, period) ==
  IF i > Len(closes) THEN ema
  ELSE SmoothFrom(closes, i + 1, Smooth(closes[i], ema, period), period)

\* EMA without a cached value: the calculation from scratch
InitialEMA(closes, period) ==
  SmoothFrom(closes, period + 1, Ratio(SumCloses(SubSeq(closes, 1, period)), period), period)

\* the result of an indicator method: the value and the cache it leaves
Computed(value, emaState) == [value |-> value, emaState |-> emaState]

\* EMA(ticker, data, period); emaState is the map of the ticker's cache
EMAWithCache(emaState, closes, period) ==
  IF Len(closes) < period THEN Computed(Ratio(0, 1), emaState)
  ELSE IF period \in DOMAIN emaState
    THEN Computed(Smooth(closes[Len(closes)], emaState[period], period),
                  MapSet(emaState, period,
                         Smooth(closes[Len(closes)], emaState[period], period)))
  ELSE Computed(InitialEMA(closes, period),
                MapSet(emaState, period, InitialEMA(closes, period)))

\* MACD(ticker, data): EMA(12), then EMA(26), their difference
MACDWithCache(emaState, closes) ==
  Computed(RatioSub(EMAWithCache(emaState, closes, 12).value,
                    EMAWithCache(EMAWithCache(emaState, closes, 12).emaState,
                                 closes, 26).value),
           EMAWithCache(EMAWithCache(emaState, closes, 12).emaState, closes, 26).emaState)

\* a field of the enriched bar that no indicator has set
Unset == [n |-> 0, d |-> 0]

\* the loop of enrichData over the requested indicators, for EMA and MACD;
\* c carries the cache and the fields set so far, ema12 the values that the
\* calls of EMA(12) of this bar returned
RECURSIVE EnrichWithCache(_, _, _)
EnrichWithCache(c, closes, indicators) ==
  IF indicators = <<>> THEN c
  ELSE EnrichWithCache(
         CASE Head(indicators) = "EMA_12" ->
                [c EXCEPT !.EMA_12 = EMAWithCache(c.emaState, closes, 12).value,
                          !.emaState = EMAWithCache(c.emaState, closes, 12).emaState,
                          !.ema12 = Append(@, EMAWithCache(c.emaState, closes, 12).value)]
           [] Head(indicators) = "EMA_26" ->
                [c EXCEPT !.EMA_26 = EMAWithCache(c.emaState, closes, 26).value,
                          !.emaState = EMAWithCache(c.emaState, closes, 26).emaState]
           [] Head(indicators) = "MACD" ->
                [c EXCEPT !.MACD = MACDWithCache(c.emaState, closes).value,
                          !.emaState = MACDWithCache(c.emaState, closes).emaState,
                          !.ema12 = Append(@, EMAWithCache(c.emaState, closes, 12).value)]
           [] OTHER -> c,
         closes, Tail(indicators))

\* the indicator lists of dataRequirements that involve an EMA
EmaIndicatorLists ==
  { <<"EMA_12">>, <<"MACD">>, <<"EMA_12", "MACD">>, <<"MACD", "EMA_12">>,
    <<"EMA_12", "EMA_26", "MACD">> }

\* the closes of the bars
EmaCloses == {1, 3}

\* the histories of the warm-up, one bar short of the period of EMA(12):
\* every call of EMA on a shorter history returns 0 and caches nothing
WarmUps ==
  { [i \in 1..11 |-> IF i % every = 0 THEN 3 ELSE 1] : every \in {1, 2, 12} }

\* a new IndicatorCalculator and the history of a ticker so far
NewCalculator ==
  /\ \E indicators \in EmaIndicatorLists, closes \in WarmUps :
       call' = [fn |-> "IndicatorCalculator", indicators |-> indicators,
                closes |-> closes, emaState |-> EmptyMap, ema12 |-> <<>>,
                EMA_12 |-> Unset, EMA_26 |-> Unset, MACD |-> Unset]
  /\ UNCHANGED <<now, engineVars, result, compilerVars, backtest, hybrid,
                 orchestrator, replay>>

\* enrichData on the next bar: the history with the bar appended, as
\* makeDecision hands it over
EnrichData ==
  /\ call.fn \in {"IndicatorCalculator", "enrichData"}
  /\ Len(call.closes) < MaxEmaBars
  /\ \E close \in EmaCloses :
       call' = [EnrichWithCache([call EXCEPT !.ema12 = <<>>, !.EMA_12 = Unset,
                                             !.EMA_26 = Unset, !.MACD = Unset],
                                Append(call.closes, close), call.indicators)
                EXCEPT !.fn = "enrichData", !.closes = Append(call.closes, close)]
  /\ UNCHANGED <<now, engineVars, result, compilerVars, backtest, hybrid,
                 orchestrator, replay>>

NextIndicators == NewCalculator \/ EnrichData

SpecIndicators == Init /\ [][NextIndicators]_vars

(***************************************************************************)
(* SpecSharedIds: strategies whose signals share an id, for two tickers,   *)
(* within one strategy, and across a replacement                           *)
(***************************************************************************)
\* a signal with the id of SigBuy and the condition RSI < 60
SigBuyOnRsi == [SigHold EXCEPT !.id = SigBuy.id]

SharedIdStrategies ==
  { Strategy("AAPL", <<SigBuy>>, DataRequirements(1), DefaultRiskParams, Never),
    Strategy("AAPL", <<SigBuyOnRsi>>, DataRequirements(1), DefaultRiskParams, Never),
    Strategy("MSFT", <<SigBuyOnRsi>>, DataRequirements(1), DefaultRiskParams, Never),
    Strategy("MSFT", <<SigBuy, SigBuyOnRsi>>, DataRequirements(1), DefaultRiskParams, Never) }

LoadSharedIds ==
  /\ \E strategy \in SharedIdStrategies : loadStrategy(strategy)
  /\ UNCHANGED <<orchestrator, replay, call>>

NextSharedIds == LoadSharedIds \/ MakeDecision

SpecSharedIds == Init /\ [][NextSharedIds]_vars

(***************************************************************************)
(* SpecWarmUp: one strategy loaded into a fresh engine and fed bar by bar, *)
(* for every pair of lookback and minDataPoints in a small range.          *)
(* replay.fed counts the bars fed since the load.                          *)
(***************************************************************************)
\* bars fed to one engine
MaxFed == 6

\* lookback and minDataPoints as z.number().min(1) admits them, independent
\* of each other
WarmUpLookbacks == {1, 2}

WarmUpMinDataPoints == 1..5

WarmUpStrategies ==
  { Strategy("AAPL", <<SigBuy>>,
             [DataRequirements(minDataPoints) EXCEPT !.lookback = lookback],
             DefaultRiskParams, Never) :
      lookback \in WarmUpLookbacks, minDataPoints \in WarmUpMinDataPoints }

LoadWarmUp ==
  /\ replay.phase = "idle"
  /\ \E strategy \in WarmUpStrategies : loadStrategy(strategy)
  /\ replay' = [phase |-> "warmUp", fed |-> 0]
  /\ UNCHANGED <<orchestrator, call>>

FeedBar ==
  /\ replay.phase = "warmUp"
  /\ replay.fed < MaxFed
  /\ \E close \in Closes : makeDecision("AAPL", MarketData("AAPL", now, close))
  /\ replay' = [replay EXCEPT !.fed = @ + 1]

NextWarmUp == LoadWarmUp \/ FeedBar

SpecWarmUp == Init /\ [][NextWarmUp]_vars

(***************************************************************************)
(* SpecPriced: runs of a few bars at prices below and above a tenth of     *)
(* the initial capital                                                     *)
(***************************************************************************)
NextPriced ==
  \/ RunBacktest({ [initialCapital |-> 10000, commission |-> c, slippage |-> c] : c \in {0, 1} })
  \/ ProcessBar({500, 2000}, MaxBars)
  \/ ReturnBacktest

SpecPriced == Init /\ [][NextPriced]_vars

(***************************************************************************)
(* SpecRerun: runBacktest called twice on one BacktestEngine               *)
(*                                                                         *)
(* The engine variables are the FastTradingEngine the BacktestEngine       *)
(* created in its constructor; backtest is the BacktestEngine's own state. *)
(* One turn of the loop is two steps, before and after the await of        *)
(* tradingEngine.makeDecision.  replay keeps the bars, which are the same  *)
(* in both runs, and what each run returned.                               *)
(***************************************************************************)
RerunStrategies ==
  { Strategy("AAPL", <<SigBuy>>, DataRequirements(minDataPoints), DefaultRiskParams, Never) :
      minDataPoints \in {1, 2} }
  \cup { Strategy("AAPL", <<SigSell, SigBuy>>, DataRequirements(2), DefaultRiskParams, Never) }

\* new BacktestEngine(config), loadStrategy(strategy); the bars of the runs
\* are drawn here
LoadBacktest ==
  /\ replay.phase = "idle"
  /\ \E strategy \in RerunStrategies : loadStrategy(strategy)
  /\ \E n \in 1..MaxSequence : \E bars \in [1..n -> Closes] :
       replay' = [phase |-> "loaded", run |-> 0, bars |-> bars,
                  results |-> <<NoBar, NoBar>>]
  /\ UNCHANGED <<orchestrator, call>>

\* runBacktest up to its loop: capital, positions, trades and equityCurve
\* are reset; tradingEngine is not touched
StartRun ==
  /\ replay.phase \in {"loaded", "between"}
  /\ backtest' = [phase |-> "running", config |-> backtest.config,
                  capital |-> backtest.config.initialCapital * 10000,
                  positions |-> EmptyMap, trades |-> <<>>,
                  i |-> 0, data |-> NoBar, decision |-> "null",
                  equity |-> 0, equityCurve |-> <<>>, maxDrawdown |-> 0]
  /\ replay' = [replay EXCEPT !.phase = "deciding", !.run = @ + 1]
  /\ UNCHANGED <<now, engineVars, result, compilerVars, hybrid, orchestrator, call>>

\* await this.tradingEngine.makeDecision(data.ticker, data)
EngineDecides ==
  /\ replay.phase = "deciding"
  /\ makeDecision("AAPL", MarketData("AAPL", backtest.i, replay.bars[backtest.i + 1]))
  /\ replay' = [replay EXCEPT !.phase = "executing"]

\* the turn of the loop after the await: executeTrade when there is a
\* decision, updatePositions, the sample of the equity
ExecuteBar ==
  /\ replay.phase = "executing"
  /\ backtest' =
       [recordEquity(
          updatePositions(
            IF result.decision = NoDecision THEN backtest
            ELSE backtestExecuteTrade(backtest, result.marketData, result.decision.action,
                                      strategies["AAPL"].riskParams),
            result.marketData),
          result.marketData)
        EXCEPT !.i = @ + 1, !.data = result.marketData,
               !.decision = result.decision.action]
  /\ replay' = [replay EXCEPT !.phase = IF backtest.i + 1 < Len(replay.bars)
                                          THEN "deciding" ELSE "closing"]
  /\ UNCHANGED <<now, engineVars, result, compilerVars, hybrid, orchestrator, call>>

\* the BacktestResult of a run, as far as the model keeps it
BacktestResult(bt) ==
  [trades |-> bt.trades, finalCapital |-> bt.capital, maxDrawdown |-> bt.maxDrawdown,
   totalTrades |-> Cardinality({ k \in DOMAIN bt.trades : bt.trades[k].action = "SELL" }),
   equityCurve |-> bt.equityCurve]

\* runBacktest after its loop
ReturnRun ==
  /\ replay.phase = "closing"
  /\ backtest' = [calculateMetrics(
                    recordLastEquity(
                      closeAllPositions(backtest, backtest.data, DOMAIN backtest.positions)))
                  EXCEPT !.phase = "returned"]
  /\ replay' = [replay EXCEPT !.results[replay.run] = BacktestResult(backtest'),
                              !.phase = IF replay.run = 1 THEN "between" ELSE "done"]
  /\ UNCHANGED <<now, engineVars, result, compilerVars, hybrid, orchestrator, call>>

NextRerun == LoadBacktest \/ StartRun \/ EngineDecides \/ ExecuteBar \/ ReturnRun

SpecRerun == Init /\ [][NextRerun]_vars

(***************************************************************************)
(* Properties                                                              *)
(***************************************************************************)
\* the enriched bar of the call that has just returned: the ring ends with
\* the bar of the call
LastEnriched ==
  enrichData(result.marketData, dataCache[result.ticker],
             strategies[result.ticker].dataRequirements.indicators)

ConditionHolds(signal, enrichedData) ==
  /\ CompiledConditions[signal.condition].kind # "throw"
  /\ CallPredicate(CompiledConditions[signal.condition], enrichedData) = "true"

\* the risk gates as the specification lists them
GatesAccept(strategy, signal) ==
  \/ signal.action = "HOLD"
  \/ /\ signal.positionSize <= strategy.riskParams.maxPositionSize
     /\ ~(dailyPnL < -strategy.riskParams.maxDailyLoss)
     /\ PositionOf(strategy.ticker) = 0

\* the last call evaluated the signals of the loaded strategy
LastCallEvaluated ==
  /\ result.op = "makeDecision"
  /\ result.ticker \in DOMAIN strategies
  /\ ~(strategies[result.ticker].expiresAt < result.at)
  /\ strategies[result.ticker].dataRequirements.defined
  /\ Len(dataCache[result.ticker]) >= strategies[result.ticker].dataRequirements.minDataPoints

Eligible(strategy) ==
  { i \in DOMAIN strategy.signals :
      /\ ConditionHolds(strategy.signals[i], LastEnriched)
      /\ GatesAccept(strategy, strategy.signals[i]) }

\* C1: makeDecision returns the decision of the signal of highest priority
\* among those whose condition holds and whose gates accept, whatever the
\* order of the signals array, and null when there is none.
C1_HighestPriorityDecides ==
  LastCallEvaluated =>
    LET strategy == strategies[result.ticker]
        eligible == Eligible(strategy)
    IN  IF eligible = {} THEN result.decision = NoDecision
        ELSE \E i \in eligible :
               /\ \A j \in eligible : strategy.signals[j].priority <= strategy.signals[i].priority
               /\ result.decision.signalId = strategy.signals[i].id

C3_NoShortPosition == \A ticker \in DOMAIN positions : positions[ticker] >= 0

\* C4: for a candidate whose condition holds the gate accepts iff the action
\* is HOLD, or the size is within maxPositionSize, the daily P&L is not
\* below -maxDailyLoss and the ticker has no position; after a rejected
\* candidate the next signal of the array is evaluated.
C4_RiskGate ==
  result.op = "makeDecision" =>
    \A k \in DOMAIN result.trace :
      LET entry == result.trace[k]
          strategy == strategies[result.ticker]
      IN  entry.outcome \in {"accepted", "rejected"} =>
            /\ (entry.outcome = "accepted") = GatesAccept(strategy, strategy.signals[entry.index])
            /\ (entry.outcome = "rejected" /\ entry.index < Len(strategy.signals)) =>
                 (k + 1 \in DOMAIN result.trace /\ result.trace[k + 1].index = entry.index + 1)

\* a BUY rejected because of the open position, then a HOLD accepted
C4_Witness ==
  /\ result.op = "makeDecision"
  /\ PositionOf(result.ticker) # 0
  /\ Len(result.trace) = 2
  /\ result.trace[1].outcome = "rejected"
  /\ result.trace[2].outcome = "accepted"
  /\ result.decision.action = "HOLD"

\* the profit or loss, in percent of capital, realised by the round trips
\* (a BUY, then a SELL of the same ticker) of a log of executed decisions
RECURSIVE RealisedPnL(_, _)
RealisedPnL(log, open) ==
  IF log = <<>> THEN 0
  ELSE LET d == Head(log)
       IN  IF d.action = "BUY"
             THEN RealisedPnL(Tail(log), MapSet(open, d.ticker, d.entryPrice))
           ELSE IF d.action = "SELL" /\ d.ticker \in DOMAIN open
             THEN (d.positionSize * (d.entryPrice - open[d.ticker])) \div open[d.ticker]
                  + RealisedPnL(Tail(log), MapDelete(open, d.ticker))
           ELSE RealisedPnL(Tail(log), open)

\* C5: once the executed trades have realised a loss beyond maxDailyLoss,
\* makeDecision returns no BUY or SELL decision.
C5_DailyLossLimitStopsTrading ==
  (/\ result.op = "makeDecision"
   /\ result.ticker \in DOMAIN strategies
   /\ RealisedPnL(executionLog, EmptyMap) < -strategies[result.ticker].riskParams.maxDailyLoss)
    => result.decision.action \notin {"BUY", "SELL"}

\* C6: makeDecision never raises.
C6_NeverRaises == result.op = "makeDecision" => ~result.raised

\* a call whose body threw outside the per-signal try
C6_Witness ==
  /\ result.op = "makeDecision"
  /\ result.caught
  /\ result.decision = NoDecision

RejectedByCompiler(strategy) ==
  \E i \in DOMAIN strategy.signals :
    CompiledConditions[strategy.signals[i].condition].kind = "throw"

\* C7: a strategy with a signal whose condition the compiler rejects is not
\* installed, and its loadStrategy fails.
C7_RejectedConditionFailsLoad ==
  /\ \A ticker \in DOMAIN strategies : ~RejectedByCompiler(strategies[ticker])
  /\ (result.op = "loadStrategy" /\ result.ticker \in DOMAIN strategies
        /\ RejectedByCompiler(strategies[result.ticker])) => result.raised

\* C8: a signal whose predicate raised on three consecutive evaluations is
\* disabled while its strategy stays loaded: it is not evaluated a fourth
\* time, so no run of consecutive runtime errors is longer than three.
C8_DisabledAfterThreeErrors ==
  \A ticker \in DOMAIN errorLog : \A i \in DOMAIN errorLog[ticker] :
    errorLog[ticker][i] <= 3

RECURSIVE ReferencedIdentifiers(_)
ReferencedIdentifiers(node) ==
  CASE node[1] = "var" -> {node[2]}
    [] node[1] = "un" -> ReferencedIdentifiers(node[3])
    [] node[1] = "bin" -> ReferencedIdentifiers(node[3]) \cup ReferencedIdentifiers(node[4])
    [] node[1] = "member" -> ReferencedIdentifiers(node[2])
    [] node[1] = "call" ->
         ReferencedIdentifiers(node[2]) \cup
         UNION { ReferencedIdentifiers(node[3][i]) : i \in DOMAIN node[3] }
    [] OTHER -> {}

\* C9: an expression the filters accept references no identifier other than
\* the EnrichedBar fields bound as parameters.
C9_OnlyBarFieldsReferenced ==
  predicate.compiled.kind = "fn" =>
    ReferencedIdentifiers(predicate.compiled.body) \subseteq Range(FunctionParams)

\* the parameters that carry indicators
IndicatorParams == { FunctionParams[i] : i \in 9..Len(FunctionParams) }

ArgumentOf(name, data) ==
  FunctionArgs(data)[CHOOSE i \in DOMAIN FunctionParams : FunctionParams[i] = name]

\* C10: the predicate of an accepted expression returns false, and does not
\* raise, on a bar where an indicator the expression references is absent.
C10_AbsentIndicatorIsFalse ==
  (/\ verdict.called
   /\ predicate.compiled.kind = "fn"
   /\ \E name \in ReferencedIdentifiers(predicate.compiled.body) \cap IndicatorParams :
        ArgumentOf(name, verdict.data) = Undefined)
    => verdict.outcome = "false"

\* C11: enrichData leaves every indicator field absent when the history
\* holds fewer bars than the indicator needs; the history here is the one
\* bar of the call, fewer than any indicator needs.
C11_AbsentWhenInsufficient ==
  verdict.called =>
    \A name \in IndicatorParams : ArgumentOf(name, verdict.data) = Undefined

\* C12: after a makeDecision call that reached updateCache, the ring of the
\* ticker holds at most 2 x lookback bars of the strategy loaded for it.
C12_RingBounded ==
  (/\ result.op = "makeDecision"
   /\ result.ticker \in DOMAIN strategies
   /\ strategies[result.ticker].dataRequirements.defined
   /\ ~(strategies[result.ticker].expiresAt < result.at)
   /\ result.ticker \in DOMAIN dataCache)
    => Len(dataCache[result.ticker]) <= 2 * strategies[result.ticker].dataRequirements.lookback


\* the sum of the pnl of the trades that carry one
RECURSIVE SumPnl(_)
SumPnl(trades) ==
  IF trades = <<>> THEN 0
  ELSE (IF "pnl" \in DOMAIN Head(trades) THEN Head(trades).pnl ELSE 0) + SumPnl(Tail(trades))

\* the sum of the commission of all the trades
RECURSIVE SumCommission(_)
SumCommission(trades) ==
  IF trades = <<>> THEN 0 ELSE Head(trades).commission + SumCommission(Tail(trades))

\* C13: at the end of a run the final capital is the initial capital plus
\* the sum of the pnl of the ledger minus the sum of the commission of all
\* its trades, no position being open
C13_CapitalIdentity ==
  backtest.phase = "returned" =>
    backtest.capital = backtest.config.initialCapital * 10000
                         + SumPnl(backtest.trades) - SumCommission(backtest.trades)

\* the ledger alternates BUY, SELL, BUY, SELL, ... from a BUY
Alternates(trades) ==
  \A k \in 1..Len(trades) :
    trades[k].action = (IF k % 2 = 1 THEN "BUY" ELSE "SELL")

\* C14: when runBacktest returns no position is open, the ledger alternates
\* BUY, SELL, ... from a BUY to a SELL, and a trade with the end-of-backtest
\* reason is the last of the ledger, a SELL at the last bar
C14_ClosedAtReturn ==
  backtest.phase = "returned" =>
    /\ backtest.positions = EmptyMap
    /\ Alternates(backtest.trades)
    /\ Len(backtest.trades) % 2 = 0
    /\ \A k \in 1..Len(backtest.trades) :
         backtest.trades[k].reason = "End of backtest" =>
           /\ k = Len(backtest.trades)
           /\ backtest.trades[k].action = "SELL"
           /\ backtest.trades[k].timestamp = backtest.data.timestamp
           /\ backtest.trades[k].ticker = backtest.data.ticker

\* a run returned after a round trip and a second BUY that the end closed
C14_Witness ==
  /\ backtest.phase = "returned"
  /\ Len(backtest.trades) = 4
  /\ backtest.trades[3].timestamp = backtest.data.timestamp
  /\ backtest.trades[4].reason = "End of backtest"

\* the BUY of the bar just processed was skipped for want of cash: the
\* decision was BUY, no position was held and none has been opened
SkippedBuy ==
  /\ backtest.phase = "running"
  /\ backtest.decision = "BUY"
  /\ backtest.trades = <<>> \/ backtest.trades[Len(backtest.trades)].action = "SELL"

\* C15: the capital of a backtest is never negative, and a BUY whose cost
\* and commission exceed the capital leaves the capital, the positions and
\* the ledger as they were
C15_CashNeverNegative ==
  [][/\ backtest'.capital >= 0
     /\ (/\ backtest.phase = "running" /\ backtest'.phase = "running"
         /\ backtest'.decision = "BUY"
         /\ backtest'.data.ticker \notin DOMAIN backtest.positions
         /\ LET executionPrice == backtest'.data.price * (100 + backtest.config.slippage)
                cost == ((backtest.config.initialCapital * 10) \div executionPrice) * executionPrice
            IN  cost * 100 + cost * backtest.config.commission > backtest.capital)
        => /\ backtest'.capital = backtest.capital
           /\ backtest'.positions = backtest.positions
           /\ backtest'.trades = backtest.trades]_vars

\* a BUY was skipped: after five round trips under a commission of 100
\* percent the capital no longer covers the cost of a position
C15_Witness ==
  /\ SkippedBuy
  /\ Len(backtest.trades) = 10
  /\ backtest.capital >= 0
  /\ backtest.capital < 2 * 1000 * 10000

\* C16: a trade closed for the stop is filled at the stop price of the
\* position, the entry price of the BUY before it less the stop-loss rate
C16_StopFilledAtStopPrice ==
  \A k \in 2..Len(backtest.trades) :
    backtest.trades[k].reason = "Stop Loss" =>
      backtest.trades[k].price * 100 =
        backtest.trades[k - 1].price * (100 - DefaultRiskParams.stopLoss)

\* C17: the step that ends the backtest of a hybrid run sets the mode to
\* TRADING iff totalTrades >= 3, maxDrawdown <= 20 and totalReturn >= -5;
\* otherwise the mode is RESEARCH, a gate event of level warn is appended
\* and the run is over with no bar replayed; a bar is replayed only in a
\* run whose metrics pass
C17_GateOne ==
  [][/\ (hybrid.pc = "backtest" /\ hybrid'.pc # "backtest") =>
          LET pass == /\ hybrid'.metrics.totalTrades >= 3
                      /\ hybrid'.metrics.maxDrawdown <= 20
                      /\ hybrid'.metrics.totalReturn >= -5
          IN  /\ hybrid'.mode = "TRADING" <=> pass
              /\ ~pass =>
                   /\ hybrid'.mode = "RESEARCH"
                   /\ hybrid'.pc = "done"
                   /\ hybrid'.bars = 0
                   /\ \E k \in (Len(hybrid.events) + 1)..Len(hybrid'.events) :
                        /\ hybrid'.events[k].kind = "gate"
                        /\ hybrid'.events[k].level = "warn"
                        /\ hybrid'.events[k].message = "Gate #1: FAIL"
     /\ hybrid'.bars > hybrid.bars =>
          /\ hybrid.metrics.totalTrades >= 3
          /\ hybrid.metrics.maxDrawdown <= 20
          /\ hybrid.metrics.totalReturn >= -5]_vars

\* a run stopped at the gate with three trades and a drawdown above 20
C17_Witness ==
  /\ hybrid.pc = "done"
  /\ hybrid.mode = "RESEARCH"
  /\ hybrid.bars = 0
  /\ hybrid.metrics.totalTrades = 3
  /\ hybrid.metrics.maxDrawdown = 21
  /\ hybrid.events[Len(hybrid.events)] = UiEvent("warn", "mode", "Mode stays RESEARCH")

\* a run in TRADING after a gate passed at its three thresholds
C17_WitnessPass ==
  /\ hybrid.pc = "replay"
  /\ hybrid.mode = "TRADING"
  /\ hybrid.metrics = [totalTrades |-> 3, maxDrawdown |-> 20, totalReturn |-> -5]
  /\ hybrid.bars = 1

\* the number of losing closing trades since the last closing trade that
\* was not a loss
RECURSIVE TrailingLosses(_)
TrailingLosses(returns) ==
  IF returns = <<>> THEN 0
  ELSE IF returns[Len(returns)] < 0
    THEN 1 + TrailingLosses(SubSeq(returns, 1, Len(returns) - 1))
  ELSE 0

\* C18: in the replay consecutiveLosses is the number of losing closing
\* trades since the last one that was not a loss; the step of the closing
\* trade that brings it to 3, and no other step of the replay, sets the
\* mode to RESEARCH and appends a drift event of level warn, and after it
\* no bar of that replay is processed
C18_DriftAfterThreeLosses ==
  [][/\ hybrid'.consecutiveLosses = TrailingLosses(hybrid'.returns)
     /\ hybrid.pc = "replay" =>
          LET third == /\ Len(hybrid'.returns) = Len(hybrid.returns) + 1
                       /\ TrailingLosses(hybrid'.returns) = 3
              drift == /\ Len(hybrid'.events) > Len(hybrid.events)
                       /\ hybrid'.events[Len(hybrid'.events)].kind = "drift"
                       /\ hybrid'.events[Len(hybrid'.events)].level = "warn"
          IN  /\ third <=> hybrid'.mode = "RESEARCH"
              /\ third <=> drift
              /\ third => hybrid'.pc = "done"
     /\ (hybrid.pc = "done" /\ hybrid.consecutiveLosses >= 3) => hybrid'.bars = 0]_vars

\* a replay stopped by its third consecutive loss, after a gain
C18_Witness ==
  /\ hybrid.pc = "done"
  /\ hybrid.mode = "RESEARCH"
  /\ hybrid.consecutiveLosses = 3
  /\ hybrid.maxDailyLoss = 20
  /\ hybrid.bars = 6
  /\ hybrid.events[Len(hybrid.events)] = UiEvent("warn", "drift", "Gate #2")

\* C19: the step of a closing trade of the replay that leaves pnlPct at or
\* below -maxDailyLoss sets the mode to PAUSED and appends a redline event,
\* whatever the consecutive-loss counter
C19_RedlinePauses ==
  [][(/\ hybrid.pc = "replay"
      /\ Len(hybrid'.returns) = Len(hybrid.returns) + 1
      /\ hybrid'.pnlPct <= -hybrid'.maxDailyLoss)
       => /\ hybrid'.mode = "PAUSED"
          /\ hybrid'.events[Len(hybrid'.events)].kind = "redline"]_vars

\* C20: once the mode is PAUSED it stays PAUSED
C20_PausedIsTerminal ==
  [][hybrid.mode = "PAUSED" => hybrid'.mode = "PAUSED"]_vars

\* the backtest of the run has been started
BacktestStarted ==
  \/ hybrid.pc = "backtest"
  \/ \E k \in 1..Len(hybrid.events) : hybrid.events[k].message = "Backtest: running"

\* C21: the history is fetched for 3mo, 6mo, 1y, 2y in that order up to the
\* first range with at least minDataPoints bars, and no backtest is run on
\* a history of fewer than minDataPoints bars
C21_FailsWhenHistoryShort ==
  /\ \A k \in 1..Len(hybrid.fetched) :
       /\ hybrid.fetched[k].range = CandidateRanges[k]
       /\ k < Len(hybrid.fetched) => hybrid.fetched[k].length < hybrid.minDataPoints
  /\ BacktestStarted =>
       hybrid.fetched[Len(hybrid.fetched)].length >= hybrid.minDataPoints

\* C22: a fetch that fails is followed by the fetch of the next range; the
\* run ends on a fetch error only at the last range
C22_FetchErrorEscalates ==
  \A k \in 1..Len(hybrid.fetched) :
    ~hybrid.fetched[k].ok => k = Len(CandidateRanges)

\* C23: at most one refresh cycle is in flight, a tick during a cycle
\* begins none, and isRefreshing is false when no cycle is in flight
C23_OneCycleAtATime ==
  /\ Len(orchestrator.cycles) <= 1
  /\ orchestrator.cycles = <<>> => ~orchestrator.isRefreshing
  /\ orchestrator.lastTick = "skipped" => orchestrator.cycles # <<>>

\* C24: once stop() has been called, a cycle in flight calls the Spec
\* Producer for no further ticker, and a Spec is loaded into the engine
\* only for a ticker whose Spec Producer call was pending at the stop
C24_StopCancelsRefresh ==
  [][(orchestrator.stopped /\ orchestrator'.stopped) =>
       /\ orchestrator'.invocations = orchestrator.invocations
       /\ \A t \in DOMAIN strategies' :
            (t \notin DOMAIN strategies \/ strategies'[t] # strategies[t])
              => t \in orchestrator.pendingAtStop]_vars

\* C25: a bar is evaluated against one version of the Spec.  On the step
\* of a makeDecision that returns a decision the Spec of the ticker is not
\* replaced, and the signal, the risk parameters and the data requirements
\* behind the decision are those of that one Spec
C25_OneSpecVersionPerBar ==
  [][(/\ result'.op = "makeDecision"
      /\ totalDecisions' # totalDecisions
      /\ result'.decision.action # "null")
       => /\ result'.ticker \in DOMAIN strategies
          /\ strategies' = strategies
          /\ LET strategy == strategies[result'.ticker]
                 decision == result'.decision
             IN  /\ \E i \in DOMAIN strategy.signals :
                      /\ decision.signalId = strategy.signals[i].id
                      /\ decision.action = strategy.signals[i].action
                      /\ decision.positionSize = strategy.signals[i].positionSize
                 /\ decision.stopLoss =
                      decision.entryPrice * (100 - strategy.riskParams.stopLoss)
                 /\ decision.takeProfit =
                      decision.entryPrice * (100 + strategy.riskParams.takeProfit)
                 /\ Len(dataCache'[result'.ticker]) >= strategy.dataRequirements.minDataPoints]_vars

\* a decision of the second version of the Spec of AAPL, made while a
\* refresh cycle awaits the Spec Producer for AAPL again
C25_Witness ==
  /\ result.op = "makeDecision"
  /\ result.decision.signalId = "sell"
  /\ result.decision.stopLoss = result.decision.entryPrice * (100 - WideRiskParams.stopLoss)
  /\ orchestrator.started >= 2
  /\ \E c \in DOMAIN orchestrator.cycles : orchestrator.cycles[c].awaiting = "AAPL"

\* C26: after unloadStrategy the bar ring of the ticker is gone, as after
\* reset: a ticker without a strategy has no ring
C26_UnloadDestroysRing ==
  \A ticker \in DOMAIN dataCache : ticker \in DOMAIN strategies

\* C27: two fresh engines with the same strategy and the same bars return
\* the same sequence of decisions
C27_ReplayDeterministic ==
  replay.phase = "done" => replay.decisions[1] = replay.decisions[2]

\* C28 (as stated): serializing, deserializing and serializing again gives
\* the very text of the first serialization, every condition string included
C28_RoundTripIdentical ==
  (call.fn = "serializeStrategy" /\ call.round > 1) => call.serialized = call.first

\* a strategy without signals does round-trip: the difference is in the conditions
C28_DatesRoundTrip ==
  (call.fn = "serializeStrategy" /\ call.round > 1) =>
     /\ call.serialized.compiledAt = call.first.compiledAt
     /\ call.serialized.expiresAt = call.first.expiresAt
     /\ call.strategy.signals = <<>> => call.serialized = call.first

\* C29 (as stated): timeframeToYahooInterval maps 1min to 1m, 5min to 5m,
\* 15min to 15m, 1hour to 1h and 1day to 1d
C29_SpecTimeframesMapped ==
  call.fn = "timeframeToYahooInterval" =>
    \A k \in DOMAIN SpecTimeframes :
      call.timeframe = TimeframeArgument(SpecTimeframes[k])
        => call.interval = ProviderIntervals[k]

\* the four Spec timeframes other than 1min get the stated interval, in any
\* case and with blanks around; no argument gets the interval 1m
C29_AllButOneMinute ==
  call.fn = "timeframeToYahooInterval" =>
    /\ \A k \in 2..Len(SpecTimeframes) :
         (call.timeframe.defined
            /\ toLowerCase(trim(call.timeframe.text)) = SpecTimeframes[k])
           => call.interval = ProviderIntervals[k]
    /\ call.interval # ProviderIntervals[1]

\* the expression of a signal: the condition string, or the text that
\* compileCondition wrapped into the function
ExpressionOf(condition) ==
  IF condition.t = "string" THEN condition.text
  ELSE SubSeq(condition.text,
              Len(AnonymousHead) + Len(FunctionBodyHead) + 1,
              Len(condition.text) - Len(FunctionBodyTail) - Len(AnonymousTail))

\* the number of terms that && (or the word AND) joins in an expression
ConjunctiveTerms(expr) ==
  LET toks == Tokenize(expr, 1)
  IN  1 + Cardinality({ i \in DOMAIN toks :
                          \/ toks[i].k = "op" /\ toks[i].v = "&&"
                          \/ toks[i].k = "id" /\ toks[i].v \in {<<"A", "N", "D">>,
                                                                <<"a", "n", "d">>} })

\* the indicators an expression names
DistinctIndicators(expr) ==
  LET toks == Tokenize(expr, 1)
  IN  { toks[i].v : i \in { j \in DOMAIN toks : toks[j].k = "id" } } \cap IndicatorParams

\* the diagnosis speaks of restrictive conditions or of too many indicators,
\* in its reason or in one of its suggestions
ReportsOverRestrictive(diagnosis) ==
  \/ diagnosis.reason.kind \in {"tooRestrictive", "manyIndicators"}
  \/ \E i \in DOMAIN diagnosis.suggestions :
       diagnosis.suggestions[i].kind \in {"simplify", "reduceIndicators"}

\* C30 (as stated): with at least 100 bars and a BUY signal, diagnoseNoTrades
\* reports over-restrictive conditions exactly when some signal expression
\* has at least 3 conjunctive terms or at least 4 distinct indicators
C30_OverRestrictiveIff ==
  (/\ call.fn = "diagnoseNoTrades"
   /\ call.historicalDataPoints >= 100
   /\ \E i \in DOMAIN call.strategy.signals : call.strategy.signals[i].action = "BUY")
    => (ReportsOverRestrictive(call.diagnosis)
          <=> \E i \in DOMAIN call.strategy.signals :
                LET expr == ExpressionOf(call.strategy.signals[i].condition)
                IN  \/ ConjunctiveTerms(expr) >= 3
                    \/ Cardinality(DistinctIndicators(expr)) >= 4)

\* what the code does report on: a condition string that holds && or two
\* separators, or four requested indicators
C30_ReportedOnStringsAndRequirements ==
  (/\ call.fn = "diagnoseNoTrades"
   /\ call.historicalDataPoints >= 100
   /\ \E i \in DOMAIN call.strategy.signals : call.strategy.signals[i].action = "BUY")
    => (ReportsOverRestrictive(call.diagnosis)
          <=> \/ Len(call.strategy.dataRequirements.indicators) >= 4
              \/ \E i \in DOMAIN call.strategy.signals :
                   /\ call.strategy.signals[i].condition.t = "string"
                   /\ ConjunctiveTerms(call.strategy.signals[i].condition.text) >= 2
                   /\ call.strategy.signals[i].condition.text # CondTwoWords)

\* the points of an equity curve never fall
NonDecreasing(equityCurve) ==
  \A k \in 2..Len(equityCurve) : equityCurve[k - 1].equity <= equityCurve[k].equity

\* C31 (as stated): a run whose sampled equity curve is monotonically
\* non-decreasing has a maximum drawdown of 0
C31_ZeroDrawdownWhenCurveRises ==
  (backtest.phase = "returned" /\ NonDecreasing(backtest.equityCurve))
    => backtest.maxDrawdown = 0

\* C31 (amended): a run has a maximum drawdown of 0 when the initial capital
\* followed by the sampled equity curve is monotonically non-decreasing, that
\* is when the curve never falls and its first point is not below the
\* initial capital
C31_ZeroDrawdownFromInitialCapital ==
  (/\ backtest.phase = "returned"
   /\ NonDecreasing(backtest.equityCurve)
   /\ backtest.equityCurve # <<>>
        => backtest.equityCurve[1].equity >= backtest.config.initialCapital * 10000)
    => backtest.maxDrawdown = 0

\* a returned run whose curve rises from the initial capital to a gain
C31_Witness ==
  /\ backtest.phase = "returned"
  /\ Len(backtest.equityCurve) = 2
  /\ backtest.equityCurve[1].equity = backtest.config.initialCapital * 10000
  /\ backtest.equityCurve[2].equity > backtest.equityCurve[1].equity
  /\ backtest.maxDrawdown = 0

\* C32 (as stated): every value that a call of EMA(12) returns for a bar is
\* the EMA computed from scratch over the history up to that bar, whatever
\* the requested indicators
C32_IncrementalEqualsFromScratch ==
  call.fn = "enrichData" =>
    \A k \in DOMAIN call.ema12 : call.ema12[k] = InitialEMA(call.closes, 12)

\* with EMA(12) called once per bar (EMA_12 alone, or MACD alone) the
\* incremental value is the value from scratch
C32_OnceWhenRequestedOnce ==
  (call.fn = "enrichData" /\ Len(call.indicators) = 1 /\ Len(call.closes) >= 12) =>
    /\ Len(call.ema12) = 1
    /\ call.ema12[1] = InitialEMA(call.closes, 12)
    /\ call.emaState[12] = InitialEMA(call.closes, 12)

\* C33: a call of makeDecision for a ticker without a loaded strategy, or
\* with a strategy that is expired at the time of the call, returns null,
\* raises nothing and leaves the engine as it was: the rings, the positions,
\* the daily counters, the compiled conditions and the decision metrics.
\* A step that leaves the clock alone and ends with the result of a
\* makeDecision is a call of makeDecision
C33_NullAndUnchanged ==
  [][(/\ result'.op = "makeDecision"
      /\ now' = now
      /\ \/ result'.ticker \notin DOMAIN strategies
         \/ IsExpired(strategies[result'.ticker]))
       => /\ result'.decision = NoDecision
          /\ ~result'.raised
          /\ UNCHANGED engineVars]_vars

\* a call on an expired strategy, made with bars in the ring and compiled
\* conditions in the cache from the calls before the expiry
C33_Witness ==
  /\ result.op = "makeDecision"
  /\ result.ticker \in DOMAIN strategies
  /\ IsExpired(strategies[result.ticker])
  /\ result.decision = NoDecision
  /\ result.ticker \in DOMAIN dataCache
  /\ dataCache[result.ticker] # <<>>
  /\ compiledSignalConditions # EmptyMap
  /\ totalDecisions > 0

\* a call for a ticker whose strategy was unloaded, its ring still there
C33_WitnessUnknown ==
  /\ result.op = "makeDecision"
  /\ result.ticker \notin DOMAIN strategies
  /\ result.decision = NoDecision
  /\ result.ticker \in DOMAIN dataCache
  /\ totalDecisions > 0

\* C34 (as stated): the predicate that makeDecision ran for a signal is the
\* compilation of the signal's own condition string.  The predicate run for
\* a signal is the entry of the map under the signal's id, which a call
\* sets once and never overwrites
C34_OwnConditionRuns ==
  (result.op = "makeDecision" /\ result.ticker \in DOMAIN strategies) =>
    \A k \in DOMAIN result.trace :
      LET signal == strategies[result.ticker].signals[result.trace[k].index]
      IN  result.trace[k].outcome # "compileError" =>
            compiledSignalConditions[signal.id] = CompiledConditions[signal.condition]

\* C35 (as stated): with a position open for the ticker, opened by an
\* executed BUY, a call on a bar where a SELL signal's condition holds, its
\* size within maxPositionSize and no signal before it in the array holding,
\* returns a SELL decision for the ticker
C35_SellClosesOpenPosition ==
  (/\ LastCallEvaluated
   /\ PositionOf(result.ticker) > 0
   /\ \E i \in DOMAIN strategies[result.ticker].signals :
        /\ strategies[result.ticker].signals[i].action = "SELL"
        /\ ConditionHolds(strategies[result.ticker].signals[i], LastEnriched)
        /\ strategies[result.ticker].signals[i].positionSize
             <= strategies[result.ticker].riskParams.maxPositionSize
        /\ \A j \in 1..(i - 1) :
             ~ConditionHolds(strategies[result.ticker].signals[j], LastEnriched))
    => /\ result.decision.action = "SELL"
       /\ result.decision.ticker = result.ticker

\* with a position open no call returns a BUY or a SELL, whatever the
\* signals: the engine itself never ends a position
C35_NoDecisionWhileOpen ==
  (LastCallEvaluated /\ PositionOf(result.ticker) # 0)
    => result.decision.action \notin {"BUY", "SELL"}

\* the call just made fed a bar to the loaded strategy, at least
\* minDataPoints bars have been fed since the load, and a signal's condition
\* holds on the bar with the risk gates accepting it
WarmAndSignalled ==
  /\ replay.phase = "warmUp"
  /\ result.op = "makeDecision"
  /\ result.ticker \in DOMAIN strategies
  /\ ~(strategies[result.ticker].expiresAt < result.at)
  /\ replay.fed >= strategies[result.ticker].dataRequirements.minDataPoints
  /\ \E i \in DOMAIN strategies[result.ticker].signals :
       /\ ConditionHolds(strategies[result.ticker].signals[i], LastEnriched)
       /\ GatesAccept(strategies[result.ticker], strategies[result.ticker].signals[i])

\* C36 (as stated): once minDataPoints bars have been fed to a loaded,
\* unexpired strategy, a call on a bar where a signal's condition holds and
\* its gates accept returns a decision, for every lookback >= 1 and
\* minDataPoints >= 1
C36_DecisionOnceFed ==
  WarmAndSignalled => result.decision # NoDecision

\* the same for the strategies whose minDataPoints is at most 2 x lookback,
\* the most the ring ever holds
C36_DecisionWhenRingCanHold ==
  (/\ WarmAndSignalled
   /\ strategies[result.ticker].dataRequirements.minDataPoints
        <= 2 * strategies[result.ticker].dataRequirements.lookback)
    => result.decision # NoDecision

\* with minDataPoints above 2 x lookback no call ever returns a decision
C36_NeverWhenRingCannotHold ==
  (/\ replay.phase = "warmUp"
   /\ result.op = "makeDecision"
   /\ strategies[result.ticker].dataRequirements.minDataPoints
        > 2 * strategies[result.ticker].dataRequirements.lookback)
    => result.decision = NoDecision

\* metrics.totalTrades of calculateMetrics: the SELL trades of the ledger
SellTrades(bt) == { k \in DOMAIN bt.trades : bt.trades[k].action = "SELL" }

\* C37 (as stated): every open position of the backtest and every BUY trade
\* of its ledger has quantity >= 1, and so has every SELL trade that
\* totalTrades counts
C37_QuantityAtLeastOne ==
  /\ \A t \in DOMAIN backtest.positions : backtest.positions[t].quantity >= 1
  /\ \A k \in DOMAIN backtest.trades : backtest.trades[k].quantity >= 1

\* a position is empty exactly when the execution price of its BUY is above
\* a tenth of the initial capital
C37_EmptyWhenPriceAboveTenth ==
  \A k \in DOMAIN backtest.trades :
    backtest.trades[k].action = "BUY" =>
      (backtest.trades[k].quantity = 0
         <=> backtest.trades[k].price > backtest.config.initialCapital * 10)

\* a returned run whose totalTrades counts a close of an empty position
C37_EmptyCloseCounted ==
  /\ backtest.phase = "returned"
  /\ \E k \in SellTrades(backtest) :
       backtest.trades[k].quantity = 0 /\ backtest.trades[k].pnl = 0

\* C38 (as stated): two runs of runBacktest on one BacktestEngine over the
\* same bars return the same trades and metrics
C38_SecondRunSame ==
  (replay.phase = "done" /\ "results" \in DOMAIN replay)
    => replay.results[1] = replay.results[2]

\* what every run does start from: the initial capital, an empty ledger,
\* no open position, an empty equity curve
C38_RunStartsFromInitialState ==
  (/\ "results" \in DOMAIN replay
   /\ replay.phase = "deciding"
   /\ backtest.i = 0)
    => /\ backtest.capital = backtest.config.initialCapital * 10000
       /\ backtest.trades = <<>>
       /\ backtest.positions = EmptyMap
       /\ backtest.equityCurve = <<>>

\* the bar history of the internal engine at the start of the second run
\* is what the first run left
C38_SecondRunStartsOnHistory ==
  (/\ "results" \in DOMAIN replay
   /\ replay.phase = "deciding"
   /\ backtest.i = 0
   /\ replay.run = 2)
    => /\ "AAPL" \in DOMAIN dataCache
       /\ Len(dataCache["AAPL"]) >= 1

\* C39 (as stated): once removeFromWatchlist was called for a ticker, in
\* whatever letter case, and no refresh is in flight any more, the engine
\* holds no strategy for the ticker and a call of onMarketData for it
\* returns null
C39_RemovedTickerGone ==
  \A t \in orchestrator.removed :
    orchestrator.cycles = <<>> =>
      /\ toUpperCase(t) \notin DOMAIN strategies
      /\ (result.op = "makeDecision" /\ result.ticker = toUpperCase(t))
           => result.decision = NoDecision

\* the strategy cache of a removed ticker is cleared as the engine is: an
\* entry of a removed ticker goes with a strategy left in the engine or
\* loaded after the removal
C39_RemovedRightAway ==
  (result.op = "unloadStrategy" /\ result.ticker = toUpperCase(result.ticker))
    => /\ result.ticker \notin DOMAIN strategies
       /\ result.ticker \notin DOMAIN orchestrator.strategyCache
       /\ result.ticker \notin orchestrator.watchlist

\* a removal in lower case has just returned with no refresh in flight and
\* the strategy of the ticker still in the engine
C39_LowerCaseLeavesStrategy ==
  /\ result.op = "unloadStrategy"
  /\ result.ticker = "aapl"
  /\ orchestrator.cycles = <<>>
  /\ "AAPL" \in DOMAIN strategies
  /\ "AAPL" \notin orchestrator.watchlist

\* a decision for a ticker removed in upper case while its refresh was in
\* flight, returned after the refresh has ended
C39_ReloadedAfterRemoval ==
  /\ result.op = "makeDecision"
  /\ result.ticker = "AAPL"
  /\ result.decision # NoDecision
  /\ orchestrator.removed = {"AAPL"}
  /\ orchestrator.cycles = <<>>

====
